---- MODULE Spec2Model ----
(***************************************************************************)
(* Portal engine: camera/hull boundary resolution (engine_lib/scene_logic), *)
(* side handlers (engine_lib/side_handler) and the frame traversal loop     *)
(* (rendering_lib/renderer).                                                *)
(*                                                                          *)
(* Number representation.  Lengths are integers counted in ticks of 1e-4    *)
(* (the value of COLLISION_EPSILON).  Components of a side normal are       *)
(* integers counted in 1/NormDen, so that normals shorter than the 1e-6     *)
(* squared-length guard of the push-out can be written down.  A plane       *)
(* distance normal.dot(p) + d is therefore counted in 1e-4/NormDen, and a   *)
(* squared normal length in 1/NormDen^2.  The arithmetic is exact; every    *)
(* quotient taken below is checked to be exact (PushOutExact).              *)
(***************************************************************************)
EXTENDS Integers, Sequences, FiniteSets, TLC

\* F applied to v, v being evaluated once
With(v, F(_)) == CHOOSE r \in {F(x) : x \in {v}} : TRUE

\* ------------------------------------------------------------------ units
NormDen == 2000
\* one length tick along a unit normal, expressed as a plane distance
DistPerTick == NormDen

\* scene_logic.rs: COLLISION_EPSILON = 1e-4 (one tick), as a plane distance
COLLISION_EPSILON == 1 * DistPerTick
\* scene_logic.rs: PUSH_OUT_DISTANCE = 1e-3 (ten ticks), as a plane distance
PUSH_OUT_DISTANCE == 10 * DistPerTick
\* scene_logic.rs: the 1e-6 guard on length_squared(), in 1/NormDen^2
NORMAL_LENGTH_SQ_GUARD == 4
\* scene_logic.rs: TRAVERSAL_PUSH_DISTANCE = 1e-3, in ticks
TRAVERSAL_PUSH_DISTANCE == 10
\* side_handler.rs: room_half_size = 1.5, in ticks
room_half_size == 15000
\* demo_scene.rs: half_size = 1.5, in ticks
half_size == 15000
\* the 1e-2 bound of the collision scenario (100 ticks), as a plane distance
PUSHBACK_BOUND == 100 * DistPerTick

\* demo_scene.rs portal and instance identifiers
PORTAL_ID_FRONT == 0
PORTAL_ID_BACK == 1
PORTAL_ID_LEFT == 2
PORTAL_ID_RIGHT == 3
PORTAL_ID_TOP == 4
PORTAL_ID_BOTTOM == 5
CUBOID_BLUEPRINT_ID == 0
ROOM1_INSTANCE_ID == 0
ROOM2_INSTANCE_ID == 1

\* geometry: the capacity of a ConvexPolygon
MAX_VERTICES == 16
\* side_handler: the deepest portal level a frame follows
MAX_PORTAL_RECURSION_DEPTH == 10
\* side_handler: culling_epsilon = 1e-5, a tenth of a tick
CULLING_EPSILON == DistPerTick \div 10
\* renderer: the back-face threshold 1e-3
BACKFACE_THRESHOLD == 10 * DistPerTick
\* the near and far plane distances the application gives its camera, in ticks
znear == 1000
zfar == 1000000

\* ------------------------------------------------------------ bounds
\* proposed positions overshoot a face by k*k + 1 ticks, k in 0..MaxStep
MaxStep == 2

\* the screen is a square of 2 * ScreenHalf pixels
ScreenHalf == 315

screen_width == 2 * ScreenHalf

screen_height == 2 * ScreenHalf

\* 1 / tan(fov_y / 2) of the camera the frames are drawn with (1 is a 90 degree view)
focal_length_y == 1

\* ------------------------------------------------------- vector algebra
Vec3(x, y, z) == <<x, y, z>>

Dot(a, b) == a[1] * b[1] + a[2] * b[2] + a[3] * b[3]

VAdd(a, b) == <<a[1] + b[1], a[2] + b[2], a[3] + b[3]>>

VSub(a, b) == <<a[1] - b[1], a[2] - b[2], a[3] - b[3]>>

VNeg(a) == <<-a[1], -a[2], -a[3]>>

VScale(k, a) == <<k * a[1], k * a[2], k * a[3]>>

LengthSquared(a) == Dot(a, a)

\* quotient rounded toward zero, as the sign-symmetric float division is
QuotT(a, b) == IF a >= 0 THEN a \div b ELSE -((-a) \div b)

VQuot(a, q) == <<QuotT(a[1], q), QuotT(a[2], q), QuotT(a[3], q)>>

\* a 3x3 rotation is a triple of rows
MatVec(R, v) == <<Dot(R[1], v), Dot(R[2], v), Dot(R[3], v)>>

Col(R, j) == <<R[1][j], R[2][j], R[3][j]>>

Transpose(R) == <<Col(R, 1), Col(R, 2), Col(R, 3)>>

RowTimes(r, B) == <<Dot(r, Col(B, 1)), Dot(r, Col(B, 2)), Dot(r, Col(B, 3))>>

MatMul(A, B) == <<RowTimes(A[1], B), RowTimes(A[2], B), RowTimes(A[3], B)>>

IdentityRot == <<<<1, 0, 0>>, <<0, 1, 0>>, <<0, 0, 1>>>>

\* cosine and sine of q quarter turns
CosQ(q) == <<1, 0, -1, 0>>[(q % 4) + 1]

SinQ(q) == <<0, 1, 0, -1>>[(q % 4) + 1]

\* glam Mat4::from_rotation_y / from_rotation_x at q quarter turns
RotY(q) == <<<<CosQ(q), 0, SinQ(q)>>, <<0, 1, 0>>, <<-SinQ(q), 0, CosQ(q)>>>>

RotX(q) == <<<<1, 0, 0>>, <<0, CosQ(q), -SinQ(q)>>, <<0, SinQ(q), CosQ(q)>>>>

\* a rigid Mat4 is its rotation block and its translation column (w_axis.xyz)
Mat4(R, t) == [rot |-> R, trans |-> t]

Mat4Identity == Mat4(IdentityRot, <<0, 0, 0>>)

Mat4FromTranslation(t) == Mat4(IdentityRot, t)

Mat4FromRot(R) == Mat4(R, <<0, 0, 0>>)

Mat4Mul(A, B) == Mat4(MatMul(A.rot, B.rot), VAdd(A.trans, MatVec(A.rot, B.trans)))

Mat4Inverse(A) == Mat4(Transpose(A.rot), VNeg(MatVec(Transpose(A.rot), A.trans)))

TransformVector3(A, v) == MatVec(A.rot, v)

TransformPoint3(A, p) == VAdd(MatVec(A.rot, p), A.trans)

\* ------------------------------------------------------------ scene data
\* Option<T>: None is the empty tuple, Some(v) the one-element tuple
None == <<>>

Some(v) == <<v>>

IsSome(o) == Len(o) = 1

Unwrap(o) == o[1]

\* scene_types.rs HandlerConfig variants
StandardWall(color) == [type |-> "StandardWall", color |-> color]

StandardPortal(target_instance_id, target_portal_id) ==
    [type |-> "StandardPortal",
     target_instance_id |-> target_instance_id,
     target_portal_id |-> target_portal_id]

BlueprintSide(vertex_indices, local_normal, default_handler_config, local_portal_id) ==
    [vertex_indices |-> vertex_indices,
     local_normal |-> local_normal,
     default_handler_config |-> default_handler_config,
     local_portal_id |-> local_portal_id]

HullInstance(blueprint_id, instance_side_handler_configs) ==
    [blueprint_id |-> blueprint_id,
     instance_side_handler_configs |-> instance_side_handler_configs]

\* demo_scene.rs: the eight corners of the cuboid room
CuboidVertices ==
    << Vec3(-half_size, -half_size, -half_size), Vec3( half_size, -half_size, -half_size),
       Vec3( half_size,  half_size, -half_size), Vec3(-half_size,  half_size, -half_size),
       Vec3(-half_size, -half_size,  half_size), Vec3( half_size, -half_size,  half_size),
       Vec3( half_size,  half_size,  half_size), Vec3(-half_size,  half_size,  half_size) >>

\* demo_scene.rs create_cuboid_room_blueprint: six sides, normals pointing inward
CuboidBlueprint ==
    [local_vertices |-> CuboidVertices,
     sides |-> <<
        BlueprintSide(<<4, 5, 6, 7>>, Vec3(0, 0, -NormDen), StandardWall("blue"),   Some(PORTAL_ID_FRONT)),
        BlueprintSide(<<1, 0, 3, 2>>, Vec3(0, 0,  NormDen), StandardWall("yellow"), Some(PORTAL_ID_BACK)),
        BlueprintSide(<<0, 4, 7, 3>>, Vec3( NormDen, 0, 0), StandardWall("white"),  Some(PORTAL_ID_LEFT)),
        BlueprintSide(<<5, 1, 2, 6>>, Vec3(-NormDen, 0, 0), StandardWall("grey"),   Some(PORTAL_ID_RIGHT)),
        BlueprintSide(<<7, 6, 2, 3>>, Vec3(0, -NormDen, 0), StandardWall("red"),    Some(PORTAL_ID_TOP)),
        BlueprintSide(<<0, 1, 5, 4>>, Vec3(0,  NormDen, 0), StandardWall("green"),  Some(PORTAL_ID_BOTTOM)) >>]

\* demo_scene.rs create_mvp_scene: two cuboid rooms joined front-to-back
MvpBlueprints == (CUBOID_BLUEPRINT_ID :> CuboidBlueprint)

MvpInstances ==
    (ROOM1_INSTANCE_ID :> HullInstance(CUBOID_BLUEPRINT_ID,
        (0 :> StandardPortal(ROOM2_INSTANCE_ID, PORTAL_ID_BACK))))
    @@
    (ROOM2_INSTANCE_ID :> HullInstance(CUBOID_BLUEPRINT_ID,
        (1 :> StandardPortal(ROOM1_INSTANCE_ID, PORTAL_ID_FRONT)) @@ (0 :> StandardWall("orange"))))

MvpScene ==
    [blueprints |-> MvpBlueprints,
     instances |-> MvpInstances,
     active_camera_instance_id |-> ROOM1_INSTANCE_ID,
     active_camera_local_transform |->
        Mat4Mul(Mat4FromTranslation(Vec3(0, 0, -10000)), Mat4FromRot(MatMul(RotY(2), RotX(0))))]

\* A second scene over the same types, built to reach the branches the demo
\* scene does not: a portal configuration on a side without a local portal id,
\* a side without vertices, normals that are not unit length, a portal whose
\* target instance is absent, and a wall that precedes a portal at a corner.
PROBE_BLUEPRINT_ID == CUBOID_BLUEPRINT_ID + 1
PROBE_CORNER_INSTANCE_ID == ROOM2_INSTANCE_ID + 1
PROBE_ODD_INSTANCE_ID == ROOM2_INSTANCE_ID + 2
ABSENT_INSTANCE_ID == ROOM2_INSTANCE_ID + 8

ProbeBlueprint ==
    [local_vertices |-> CuboidVertices,
     sides |-> <<
        BlueprintSide(<<4, 5, 6, 7>>, Vec3(0, 0, -NormDen),
                      StandardPortal(ROOM1_INSTANCE_ID, PORTAL_ID_BACK), None),
        BlueprintSide(<<>>,           Vec3(0, 0,  NormDen), StandardWall("yellow"), Some(PORTAL_ID_BACK)),
        BlueprintSide(<<0, 4, 7, 3>>, Vec3(1, 0, 0),        StandardWall("white"),  Some(PORTAL_ID_LEFT)),
        BlueprintSide(<<5, 1, 2, 6>>, Vec3(-2 * NormDen, 0, 0), StandardWall("grey"), Some(PORTAL_ID_RIGHT)),
        BlueprintSide(<<7, 6, 2, 3>>, Vec3(0, -NormDen, 0),
                      StandardPortal(ROOM1_INSTANCE_ID, PORTAL_ID_FRONT), Some(PORTAL_ID_TOP)),
        BlueprintSide(<<0, 1, 5, 4>>, Vec3(0, 4, 0),        StandardWall("green"),  Some(PORTAL_ID_BOTTOM)) >>]

ProbeBlueprints == MvpBlueprints @@ (PROBE_BLUEPRINT_ID :> ProbeBlueprint)

ProbeInstances ==
    MvpInstances
    @@
    (PROBE_CORNER_INSTANCE_ID :> HullInstance(CUBOID_BLUEPRINT_ID,
        (3 :> StandardPortal(ROOM1_INSTANCE_ID, PORTAL_ID_LEFT))
        @@ (2 :> StandardPortal(ABSENT_INSTANCE_ID, PORTAL_ID_RIGHT))))
    @@
    (PROBE_ODD_INSTANCE_ID :> HullInstance(PROBE_BLUEPRINT_ID,
        (3 :> StandardWall("pink"))))

ProbeScene(start_instance_id) ==
    [blueprints |-> ProbeBlueprints,
     instances |-> ProbeInstances,
     active_camera_instance_id |-> start_instance_id,
     active_camera_local_transform |-> Mat4Identity]

Scenes == {MvpScene} \cup {ProbeScene(i) : i \in DOMAIN ProbeInstances}

\* ------------------------------------------------- camera / hull boundary
Inside == [kind |-> "Inside"]

Collision(collided_side_index, collision_point) ==
    [kind |-> "Collision",
     collided_side_index |-> collided_side_index,
     collision_point |-> collision_point]

Traverse(crossed_side_index, target_instance_id, target_portal_id) ==
    [kind |-> "Traverse",
     crossed_side_index |-> crossed_side_index,
     target_instance_id |-> target_instance_id,
     target_portal_id |-> target_portal_id]

\* side k of a blueprint, k counted from 0 as SideIndex is
SideAt(blueprint, side_idx) == blueprint.sides[side_idx + 1]

\* local_vertices[vertex_indices[0]]
PointOnPlane(blueprint, side) == blueprint.local_vertices[side.vertex_indices[1] + 1]

\* normal.dot(p) + d_plane_constant, d_plane_constant = -normal.dot(point_on_plane)
SignedDistance(blueprint, side, p) ==
    Dot(side.local_normal, p) + (-Dot(side.local_normal, PointOnPlane(blueprint, side)))

\* instance_side_handler_configs.get(side_idx).unwrap_or(default_handler_config)
EffectiveConfig(instance, side, side_idx) ==
    IF side_idx \in DOMAIN instance.instance_side_handler_configs
    THEN instance.instance_side_handler_configs[side_idx]
    ELSE side.default_handler_config

\* the body of the loop of check_camera_hull_boundary for a violated side
\* a variant that treats every violated side as a wall
ViolatedSideAsWall(p, side, side_idx, handler_config) == Collision(side_idx, p)

ViolatedSideResult(p, side, side_idx, handler_config) ==
    IF handler_config.type = "StandardPortal"
    THEN IF IsSome(side.local_portal_id)
         THEN Traverse(side_idx, handler_config.target_instance_id, handler_config.target_portal_id)
         ELSE Collision(side_idx, p)
    ELSE Collision(side_idx, p)

\* the loop of check_camera_hull_boundary, from side side_idx on
RECURSIVE CheckFromLast(_, _, _, _)
\* a variant in which a later violated side overrides an earlier one
CheckFromLast(p, blueprint, instance, side_idx) ==
    IF side_idx >= Len(blueprint.sides) THEN Inside
    ELSE LET later == CheckFromLast(p, blueprint, instance, side_idx + 1)
             side == SideAt(blueprint, side_idx)
         IN  IF later.kind # "Inside" THEN later
             ELSE IF side.vertex_indices = <<>> THEN Inside
             ELSE IF SignedDistance(blueprint, side, p) < -COLLISION_EPSILON
             THEN ViolatedSideResult(p, side, side_idx, EffectiveConfig(instance, side, side_idx))
             ELSE Inside

RECURSIVE CheckFrom(_, _, _, _)
CheckFrom(p, blueprint, instance, side_idx) ==
    IF side_idx >= Len(blueprint.sides) THEN Inside
    ELSE LET side == SideAt(blueprint, side_idx) IN
         IF side.vertex_indices = <<>> THEN CheckFrom(p, blueprint, instance, side_idx + 1)
         ELSE IF SignedDistance(blueprint, side, p) < -COLLISION_EPSILON
              THEN ViolatedSideResult(p, side, side_idx, EffectiveConfig(instance, side, side_idx))
              ELSE CheckFrom(p, blueprint, instance, side_idx + 1)

check_camera_hull_boundary(new_camera_pos_in_blueprint_space, current_hull_blueprint, current_hull_instance) ==
    CheckFrom(new_camera_pos_in_blueprint_space, current_hull_blueprint, current_hull_instance, 0)

\* a variant that gives a portal pair and its reverse the same translation
AlignmentIgnoringDirection(source_portal_id_on_current_bp, target_portal_id_on_target_bp) ==
    LET pair == <<source_portal_id_on_current_bp, target_portal_id_on_target_bp>> IN
    CASE pair \in {<<PORTAL_ID_FRONT, PORTAL_ID_BACK>>, <<PORTAL_ID_BACK, PORTAL_ID_FRONT>>} ->
             Mat4FromTranslation(Vec3(0, 0, room_half_size * 2))
      [] pair \in {<<PORTAL_ID_RIGHT, PORTAL_ID_LEFT>>, <<PORTAL_ID_LEFT, PORTAL_ID_RIGHT>>} ->
             Mat4FromTranslation(Vec3(room_half_size * 2, 0, 0))
      [] pair \in {<<PORTAL_ID_TOP, PORTAL_ID_BOTTOM>>, <<PORTAL_ID_BOTTOM, PORTAL_ID_TOP>>} ->
             Mat4FromTranslation(Vec3(0, room_half_size * 2, 0))
      [] OTHER -> Mat4Identity

\* side_handler.rs get_portal_alignment_transform
get_portal_alignment_transform(source_portal_id_on_current_bp, target_portal_id_on_target_bp) ==
    LET pair == <<source_portal_id_on_current_bp, target_portal_id_on_target_bp>> IN
    CASE pair = <<PORTAL_ID_FRONT, PORTAL_ID_BACK>> -> Mat4FromTranslation(Vec3(0, 0, room_half_size * 2))
      [] pair = <<PORTAL_ID_BACK, PORTAL_ID_FRONT>> -> Mat4FromTranslation(Vec3(0, 0, -room_half_size * 2))
      [] pair = <<PORTAL_ID_RIGHT, PORTAL_ID_LEFT>> -> Mat4FromTranslation(Vec3(room_half_size * 2, 0, 0))
      [] pair = <<PORTAL_ID_LEFT, PORTAL_ID_RIGHT>> -> Mat4FromTranslation(Vec3(-room_half_size * 2, 0, 0))
      [] pair = <<PORTAL_ID_TOP, PORTAL_ID_BOTTOM>> -> Mat4FromTranslation(Vec3(0, room_half_size * 2, 0))
      [] pair = <<PORTAL_ID_BOTTOM, PORTAL_ID_TOP>> -> Mat4FromTranslation(Vec3(0, -room_half_size * 2, 0))
      [] OTHER -> Mat4Identity

\* ---------------------------------------------------------------- state
VARIABLES
    blueprints,                     \* Scene.blueprints
    instances,                      \* Scene.instances
    active_camera_instance_id,      \* Scene.active_camera_instance_id
    active_camera_local_transform,  \* Scene.active_camera_local_transform
    last_call,                      \* what the last update_camera_in_scene call saw and did
    panicked,                       \* an expect() of update_camera_in_scene failed
    render_phase,                   \* where the frame's traversal stands
    traversal_queue,                \* the VecDeque<TraversalState> of the frame
    render_current,                 \* the state popped and not yet fully processed
    side_index,                     \* the next side of that state's blueprint
    frame_vertices,                 \* the frame's vertex buffer
    frame_indices,                  \* the frame's index buffer
    hulls,                          \* Scene.hulls of the hull-list renderer
    camera,                         \* the Camera of the hull-list renderer
    processed_hulls_this_frame,     \* the HashSet of the hull-list renderer's loop
    polygon,                        \* a ConvexPolygon: its fixed array and its count
    kernel_call                     \* the last call into the geometry kernel, with its inputs

sceneVars == <<blueprints, instances, active_camera_instance_id, active_camera_local_transform>>

cameraVars == <<sceneVars, last_call, panicked>>

renderVars == <<render_phase, traversal_queue, render_current, side_index,
                frame_vertices, frame_indices>>

oldVars == <<hulls, camera, processed_hulls_this_frame>>

kernelVars == <<polygon, kernel_call>>

RECURSIVE GCD(_, _)
GCD(a, b) == IF b = 0 THEN a ELSE With(a % b, LAMBDA r : GCD(b, r))

Abs(a) == IF a < 0 THEN -a ELSE a

\* a * n / q, the factor common to n and q taken out before multiplying
ScaledQuot(a, n, q) ==
    LET g == GCD(Abs(n), q) IN QuotT(a * QuotT(n, g), q \div g)

\* k * collided_side_normal, k = (PUSH_OUT_DISTANCE - signed_distance) / length_squared, in ticks
PushOutOffset(signed_distance, normal) ==
    LET a == PUSH_OUT_DISTANCE - signed_distance
        q == LengthSquared(normal)
    IN  <<ScaledQuot(a, normal[1], q), ScaledQuot(a, normal[2], q), ScaledQuot(a, normal[3], q)>>

\* the Collision arm of update_camera_in_scene: the position that is stored
CorrectedPosition(old_position, potential_new_local_pos, blueprint, collided_side_index) ==
    LET side == SideAt(blueprint, collided_side_index)
        collided_side_normal == side.local_normal
        signed_distance_at_potential_pos == SignedDistance(blueprint, side, potential_new_local_pos)
    IN  IF LengthSquared(collided_side_normal) > NORMAL_LENGTH_SQ_GUARD
        THEN VAdd(potential_new_local_pos,
                  PushOutOffset(signed_distance_at_potential_pos, collided_side_normal))
        ELSE old_position

\* to_scale_rotation_translation followed by from_scale_rotation_translation with
\* the translation moved along the pose's own -Z axis
PushedPose(pose) ==
    LET local_push_vec == Vec3(0, 0, -TRAVERSAL_PUSH_DISTANCE)
        rotation_matrix_of_new_pose == Mat4FromRot(pose.rot)
        world_ish_push_offset == TransformVector3(rotation_matrix_of_new_pose, local_push_vec)
    IN  Mat4(pose.rot, VAdd(pose.trans, world_ish_push_offset))

\* a variant that leaves out the change of frame between the two hulls
TraversedPoseUnaligned(potential_new_local_pos, new_rotation_matrix, blueprint, result) ==
    PushedPose(Mat4Mul(Mat4FromTranslation(potential_new_local_pos), new_rotation_matrix))

\* the Traverse arm of update_camera_in_scene: the pose that is stored
TraversedPose(potential_new_local_pos, new_rotation_matrix, blueprint, result) ==
    LET source_portal_id_on_current_bp ==
            Unwrap(SideAt(blueprint, result.crossed_side_index).local_portal_id)
        portal_alignment_transform_target_to_current ==
            get_portal_alignment_transform(source_portal_id_on_current_bp, result.target_portal_id)
        camera_pose_if_crossed_in_old_bp ==
            Mat4Mul(Mat4FromTranslation(potential_new_local_pos), new_rotation_matrix)
    IN  PushedPose(Mat4Mul(Mat4Inverse(portal_alignment_transform_target_to_current),
                           camera_pose_if_crossed_in_old_bp))

\* a variant in which no arm assigns the instance id
NoInstanceIdWrites(result) == <<>>

\* a variant in which the Collision arm assigns the instance id as well
InstanceIdWritesOnCollision(result) ==
    CASE result.kind = "Traverse" -> <<result.target_instance_id>>
      [] result.kind = "Collision" -> <<result.collided_side_index>>
      [] OTHER -> <<>>

\* the assignments to scene.active_camera_instance_id made by the arm taken, in order
InstanceIdWrites(result) ==
    IF result.kind = "Traverse" THEN <<result.target_instance_id>> ELSE <<>>

\* the value a field holds after a sequence of assignments to it
AfterWrites(old_value, writes) == IF writes = <<>> THEN old_value ELSE writes[Len(writes)]

\* a variant whose Inside arm keeps the position the camera had
NextLocalTransformKeepingInside(old_transform, potential_new_local_pos, new_rotation_matrix, blueprint, result) ==
    CASE result.kind = "Inside" ->
            Mat4Mul(Mat4FromTranslation(old_transform.trans), new_rotation_matrix)
      [] result.kind = "Collision" ->
            Mat4Mul(Mat4FromTranslation(
                        CorrectedPosition(old_transform.trans, potential_new_local_pos,
                                          blueprint, result.collided_side_index)),
                    new_rotation_matrix)
      [] result.kind = "Traverse" ->
            TraversedPose(potential_new_local_pos, new_rotation_matrix, blueprint, result)

\* the pose the arm taken assigns to scene.active_camera_local_transform
NextLocalTransform(old_transform, potential_new_local_pos, new_rotation_matrix, blueprint, result) ==
    CASE result.kind = "Inside" ->
            Mat4Mul(Mat4FromTranslation(potential_new_local_pos), new_rotation_matrix)
      [] result.kind = "Collision" ->
            Mat4Mul(Mat4FromTranslation(
                        CorrectedPosition(old_transform.trans, potential_new_local_pos,
                                          blueprint, result.collided_side_index)),
                    new_rotation_matrix)
      [] result.kind = "Traverse" ->
            TraversedPose(potential_new_local_pos, new_rotation_matrix, blueprint, result)

\* the assignments to scene.active_camera_local_transform made by the arm taken, in order
LocalTransformWrites(old_transform, potential_new_local_pos, new_rotation_matrix, blueprint, result) ==
    <<NextLocalTransform(old_transform, potential_new_local_pos, new_rotation_matrix,
                         blueprint, result)>>

NoCall ==
    [result |-> [kind |-> "NoCall"], potential_new_local_pos |-> <<0, 0, 0>>,
     new_rotation_matrix |-> Mat4Identity, instance_id |-> 0,
     instance_id_writes |-> 0, pose_writes |-> 0]

\* no call into the geometry kernel has been made
NoKernelCall == [op |-> "none"]

\* update_camera_in_scene(scene, potential_new_local_pos, new_rotation_matrix, _dt)
update_camera_in_scene(potential_new_local_pos, new_rotation_matrix) ==
    /\ ~panicked
    /\ UNCHANGED <<renderVars, oldVars, kernelVars>>
    /\ LET current_instance_id == active_camera_instance_id IN
       IF \/ current_instance_id \notin DOMAIN instances
          \/ instances[current_instance_id].blueprint_id \notin DOMAIN blueprints
       THEN /\ panicked' = TRUE
            /\ UNCHANGED <<sceneVars, last_call>>
       ELSE LET current_instance_clone == instances[current_instance_id]
                current_hull_blueprint == blueprints[current_instance_clone.blueprint_id]
                boundary_check_result ==
                    check_camera_hull_boundary(potential_new_local_pos,
                                               current_hull_blueprint, current_instance_clone)
                id_writes == InstanceIdWrites(boundary_check_result)
                pose_writes ==
                    LocalTransformWrites(active_camera_local_transform, potential_new_local_pos,
                                         new_rotation_matrix, current_hull_blueprint,
                                         boundary_check_result)
            IN  /\ active_camera_instance_id' = AfterWrites(current_instance_id, id_writes)
                /\ active_camera_local_transform' =
                       AfterWrites(active_camera_local_transform, pose_writes)
                /\ last_call' = [result |-> boundary_check_result,
                                 potential_new_local_pos |-> potential_new_local_pos,
                                 new_rotation_matrix |-> new_rotation_matrix,
                                 instance_id |-> current_instance_id,
                                 instance_id_writes |-> Len(id_writes),
                                 pose_writes |-> Len(pose_writes)]
                /\ UNCHANGED <<blueprints, instances, panicked>>

\* ------------------------------------------------ screen-space polygons
\* a * n / d, rounded toward zero; the common factors are taken out before
\* multiplying so that the product stays within the integers of the checker
MulDiv(a, n, d) ==
    LET s == IF d < 0 THEN -1 ELSE 1
    IN  With(GCD(Abs(n), Abs(d)),
             LAMBDA g1 :
                 With(GCD(Abs(a), Abs(d) \div g1),
                      LAMBDA g2 :
                          QuotT(QuotT(a, g2) * QuotT(s * n, g1), (Abs(d) \div g1) \div g2)))

Point2(x, y) == <<x, y>>

\* ConvexPolygon: the live vertices, in order; count() is Len
ConvexPolygon_from_points(points) ==
    IF Len(points) > MAX_VERTICES THEN SubSeq(points, 1, MAX_VERTICES) ELSE points

\* the struct itself: the fixed array of MAX_VERTICES points and the count
ConvexPolygon_new ==
    [vertices |-> [i \in 1..MAX_VERTICES |-> Point2(0, 0)], count |-> 0]

Min(a, b) == IF a < b THEN a ELSE b

\* vertices[..num_to_copy].copy_from_slice(&slice[..num_to_copy])
CopyInto(array, slice, num_to_copy) ==
    [i \in 1..MAX_VERTICES |-> IF i <= num_to_copy THEN slice[i] ELSE array[i]]

FromPoints(points) ==
    [vertices |-> CopyInto(ConvexPolygon_new.vertices, points, Min(Len(points), MAX_VERTICES)),
     count |-> Min(Len(points), MAX_VERTICES)]

\* &self.vertices[..self.count]
ConvexPolygon_vertices(self) == [i \in 1..self.count |-> self.vertices[i]]

\* a variant that stores the count it is given
SetCountUnclamped(self, count) == [self EXCEPT !.count = count]

ConvexPolygon_set_count(self, count) == [self EXCEPT !.count = Min(count, MAX_VERTICES)]

\* a variant that copies one vertex too few
CopyAllButLast(self, slice) ==
    [vertices |-> CopyInto(self.vertices, slice, Min(Len(slice), MAX_VERTICES) - 1),
     count |-> IF slice = <<>> THEN 0 ELSE Min(Len(slice), MAX_VERTICES) - 1]

\* a variant that never lowers the count
CopyKeepingLongerCount(self, slice) ==
    [vertices |-> CopyInto(self.vertices, slice, Min(Len(slice), MAX_VERTICES)),
     count |-> IF self.count > Min(Len(slice), MAX_VERTICES)
               THEN self.count ELSE Min(Len(slice), MAX_VERTICES)]

ConvexPolygon_copy_vertices_from_slice(self, slice) ==
    [vertices |-> CopyInto(self.vertices, slice, Min(Len(slice), MAX_VERTICES)),
     count |-> Min(Len(slice), MAX_VERTICES)]

\* a variant that takes the other side of the edge for the inside
IsOnOuterSide(point, edge_start, edge_end) ==
    (edge_end[1] - edge_start[1]) * (point[2] - edge_start[2])
        - (edge_end[2] - edge_start[2]) * (point[1] - edge_start[1]) <= 0

\* the cross product is an integer here, so >= -1e-5 is >= 0
is_inside(point, edge_start, edge_end) ==
    (edge_end[1] - edge_start[1]) * (point[2] - edge_start[2])
        - (edge_end[2] - edge_start[2]) * (point[1] - edge_start[1]) >= 0

\* a variant that takes the start of the subject edge for the crossing point
LineIntersectionAtStart(p1, p2, clip_edge_p1, clip_edge_p2) == Some(p1)

\* None for parallel lines, else the crossing point rounded to whole pixels
line_intersection(p1, p2, clip_edge_p1, clip_edge_p2) ==
    LET dx_line == p2[1] - p1[1]
        dy_line == p2[2] - p1[2]
        dx_clip == clip_edge_p2[1] - clip_edge_p1[1]
        dy_clip == clip_edge_p2[2] - clip_edge_p1[2]
        denominator == dy_clip * dx_line - dx_clip * dy_line
        t_numerator == dx_clip * (p1[2] - clip_edge_p1[2]) - dy_clip * (p1[1] - clip_edge_p1[1])
    IN  IF denominator = 0 THEN None
        ELSE Some(Point2(p1[1] + MulDiv(dx_line, t_numerator, denominator),
                         p1[2] + MulDiv(dy_line, t_numerator, denominator)))

\* a variant that emits the entering vertex before the crossing point
EdgeOutputCurrentFirst(prev_vertex, current_vertex, clip_edge_start, clip_edge_end) ==
    LET prev_is_inside == is_inside(prev_vertex, clip_edge_start, clip_edge_end)
        current_is_inside == is_inside(current_vertex, clip_edge_start, clip_edge_end)
        intersection == line_intersection(prev_vertex, current_vertex,
                                          clip_edge_start, clip_edge_end)
    IN  IF prev_is_inside /\ current_is_inside THEN <<current_vertex>>
        ELSE IF prev_is_inside /\ ~current_is_inside THEN intersection
        ELSE IF ~prev_is_inside /\ current_is_inside THEN <<current_vertex>> \o intersection
        ELSE <<>>

\* what one subject edge (prev_vertex -> current_vertex) adds to the output
EdgeOutput(prev_vertex, current_vertex, clip_edge_start, clip_edge_end) ==
    LET prev_is_inside == is_inside(prev_vertex, clip_edge_start, clip_edge_end)
        current_is_inside == is_inside(current_vertex, clip_edge_start, clip_edge_end)
        intersection == line_intersection(prev_vertex, current_vertex,
                                          clip_edge_start, clip_edge_end)
    IN  IF prev_is_inside /\ current_is_inside THEN <<current_vertex>>
        ELSE IF prev_is_inside /\ ~current_is_inside THEN intersection
        ELSE IF ~prev_is_inside /\ current_is_inside THEN intersection \o <<current_vertex>>
        ELSE <<>>

RECURSIVE EmittedFrom(_, _, _, _, _, _)
\* what the loop of clip_polygon_by_edge would emit from subject vertex k on
\* into an output buffer without an end
EmittedFrom(subject_vertices, k, prev_vertex, output, clip_edge_start, clip_edge_end) ==
    IF k > Len(subject_vertices) THEN output
    ELSE With(output \o EdgeOutput(prev_vertex, subject_vertices[k],
                                    clip_edge_start, clip_edge_end),
              LAMBDA extended :
                  EmittedFrom(subject_vertices, k + 1, subject_vertices[k], extended,
                              clip_edge_start, clip_edge_end))

\* a variant whose output buffer ends one slot late
ClipEdgeOneSlotLate(subject_vertices, k, prev_vertex, output, clip_edge_start, clip_edge_end) ==
    With(EmittedFrom(subject_vertices, k, prev_vertex, output, clip_edge_start, clip_edge_end),
         LAMBDA emitted :
             IF Len(emitted) > MAX_VERTICES + 1
             THEN SubSeq(emitted, 1, MAX_VERTICES + 1) ELSE emitted)

RECURSIVE ClipEdgeFrom(_, _, _, _, _, _)
\* the loop of clip_polygon_by_edge from subject vertex k on; it breaks at the
\* first vertex that does not fit into the output buffer
ClipEdgeFrom(subject_vertices, k, prev_vertex, output, clip_edge_start, clip_edge_end) ==
    IF k > Len(subject_vertices) THEN output
    ELSE With(output \o EdgeOutput(prev_vertex, subject_vertices[k],
                                    clip_edge_start, clip_edge_end),
              LAMBDA extended :
                  IF Len(extended) > MAX_VERTICES
                  THEN SubSeq(extended, 1, MAX_VERTICES)
                  ELSE ClipEdgeFrom(subject_vertices, k + 1, subject_vertices[k], extended,
                                    clip_edge_start, clip_edge_end))

clip_polygon_by_edge(subject_vertices, clip_edge_start, clip_edge_end) ==
    IF subject_vertices = <<>> THEN <<>>
    ELSE ClipEdgeFrom(subject_vertices, 1, subject_vertices[Len(subject_vertices)], <<>>,
                      clip_edge_start, clip_edge_end)

\* a variant that clips against no edge
KeepSubject(subject, poly2, i) == subject

RECURSIVE SkipWhenSomeInside(_, _, _)
\* a variant that skips the pass as soon as one subject vertex is inside
SkipWhenSomeInside(subject, poly2, i) ==
    IF i >= Len(poly2) \/ subject = <<>> THEN subject
    ELSE LET clip_edge_start == poly2[i + 1]
             clip_edge_end == poly2[((i + 1) % Len(poly2)) + 1]
             some_inside_this_edge ==
                 \E k_idx \in 1..Len(subject) :
                     is_inside(subject[k_idx], clip_edge_start, clip_edge_end)
         IN  With(IF some_inside_this_edge THEN subject
                  ELSE clip_polygon_by_edge(subject, clip_edge_start, clip_edge_end),
                  LAMBDA clipped : SkipWhenSomeInside(clipped, poly2, i + 1))

RECURSIVE ClipAgainstEdgesFrom(_, _, _)
\* the loop of find_intersection_into over the edges of poly2 from edge i on
ClipAgainstEdgesFrom(subject, poly2, i) ==
    IF i >= Len(poly2) \/ subject = <<>> THEN subject
    ELSE LET clip_edge_start == poly2[i + 1]
             clip_edge_end == poly2[((i + 1) % Len(poly2)) + 1]
             all_inside_this_edge ==
                 \A k_idx \in 1..Len(subject) :
                     is_inside(subject[k_idx], clip_edge_start, clip_edge_end)
         IN  With(IF all_inside_this_edge THEN subject
                  ELSE clip_polygon_by_edge(subject, clip_edge_start, clip_edge_end),
                  LAMBDA clipped : ClipAgainstEdgesFrom(clipped, poly2, i + 1))

\* the polygon left in result_poly
find_intersection_into(poly1, poly2) ==
    IF poly1 = <<>> THEN <<>>
    ELSE IF Len(poly2) < 3 THEN poly1
    ELSE ClipAgainstEdgesFrom(poly1, poly2, 0)

\* &buffer[..subject_count]
BufferSlice(buffer, subject_count) == <<>> \o [k \in 1..subject_count |-> buffer[k]]

RECURSIVE PingPongFrom(_, _, _, _, _, _)
\* the loop of find_intersection_into from edge i on, over its two buffers:
\* a pass reads the buffer input_is_buffer_a names and writes the other one,
\* and what is returned is final_vertices_slice
PingPongFrom(buffer_a, buffer_b, subject_count, input_is_buffer_a, poly2, i) ==
    IF i >= poly2.count \/ subject_count = 0
    THEN IF input_is_buffer_a THEN BufferSlice(buffer_a, subject_count)
         ELSE BufferSlice(buffer_b, subject_count)
    ELSE LET clip_edge_start == poly2.vertices[i + 1]
             clip_edge_end == poly2.vertices[((i + 1) % poly2.count) + 1]
         IN  With(IF input_is_buffer_a THEN BufferSlice(buffer_a, subject_count)
                  ELSE BufferSlice(buffer_b, subject_count),
                  LAMBDA current_subject_slice :
                      IF \A k_idx \in 1..subject_count :
                             is_inside(current_subject_slice[k_idx], clip_edge_start, clip_edge_end)
                      THEN PingPongFrom(buffer_a, buffer_b, subject_count, input_is_buffer_a,
                                        poly2, i + 1)
                      ELSE With(clip_polygon_by_edge(current_subject_slice,
                                                     clip_edge_start, clip_edge_end),
                                LAMBDA output :
                                    IF input_is_buffer_a
                                    THEN PingPongFrom(buffer_a,
                                                      CopyInto(buffer_b, output, Len(output)),
                                                      Len(output), FALSE, poly2, i + 1)
                                    ELSE PingPongFrom(CopyInto(buffer_a, output, Len(output)),
                                                      buffer_b, Len(output), TRUE, poly2, i + 1)))

\* find_intersection_into with its buffers: result_poly after the call
FindIntersectionBuffers(poly1, poly2, result_poly) ==
    IF poly1.count = 0 THEN ConvexPolygon_set_count(result_poly, 0)
    ELSE IF poly2.count < 3
         THEN ConvexPolygon_copy_vertices_from_slice(result_poly, ConvexPolygon_vertices(poly1))
    ELSE With(PingPongFrom(CopyInto(ConvexPolygon_new.vertices, poly1.vertices, poly1.count),
                           ConvexPolygon_new.vertices, poly1.count, TRUE, poly2, 0),
              LAMBDA final_vertices_slice :
                  IF Len(final_vertices_slice) > 0
                  THEN ConvexPolygon_copy_vertices_from_slice(result_poly, final_vertices_slice)
                  ELSE ConvexPolygon_set_count(result_poly, 0))

\* a variant whose degenerate-clip exit empties the result
FindIntersectionEmptyingOnDegenerate(poly1, poly2, result_poly) ==
    IF poly1.count = 0 \/ poly2.count < 3 THEN ConvexPolygon_set_count(result_poly, 0)
    ELSE With(ClipAgainstEdgesFrom(ConvexPolygon_vertices(poly1),
                                   ConvexPolygon_vertices(poly2), 0),
              LAMBDA final_vertices_slice :
                  IF Len(final_vertices_slice) > 0
                  THEN ConvexPolygon_copy_vertices_from_slice(result_poly, final_vertices_slice)
                  ELSE ConvexPolygon_set_count(result_poly, 0))

\* find_intersection_into on the structs: result_poly after the call
FindIntersectionInto(poly1, poly2, result_poly) ==
    IF poly1.count = 0 THEN ConvexPolygon_set_count(result_poly, 0)
    ELSE IF poly2.count < 3
         THEN ConvexPolygon_copy_vertices_from_slice(result_poly, ConvexPolygon_vertices(poly1))
    ELSE With(ClipAgainstEdgesFrom(ConvexPolygon_vertices(poly1),
                                   ConvexPolygon_vertices(poly2), 0),
              LAMBDA final_vertices_slice :
                  IF Len(final_vertices_slice) > 0
                  THEN ConvexPolygon_copy_vertices_from_slice(result_poly, final_vertices_slice)
                  ELSE ConvexPolygon_set_count(result_poly, 0))

RECURSIVE ShoelaceFrom(_, _)
\* the sum the loop of area() builds, from vertex i (0-based) on
ShoelaceFrom(self, i) ==
    IF i >= self.count THEN 0
    ELSE self.vertices[i + 1][1] * self.vertices[((i + 1) % self.count) + 1][2]
         - self.vertices[((i + 1) % self.count) + 1][1] * self.vertices[i + 1][2]
         + ShoelaceFrom(self, i + 1)

\* area(), in halves of a square pixel: abs() of the sum, not yet divided by 2.0
ConvexPolygon_area(self) ==
    IF self.count < 3 THEN 0 ELSE Abs(ShoelaceFrom(self, 0))

\* ------------------------------------------------ camera-space clipping and projection
\* a variant that puts the crossing point at the depth of the vertex in front
CrossingAtOuterDepth(s, p, camera_znear) ==
    IF p[3] - s[3] = 0 THEN <<>>
    ELSE <<Vec3(s[1] + MulDiv(p[1] - s[1], -camera_znear - s[3], p[3] - s[3]),
                s[2] + MulDiv(p[2] - s[2], -camera_znear - s[3], p[3] - s[3]),
                p[3])>>

\* the crossing of edge s -> p with the plane z = -camera_znear
NearPlaneCrossing(s, p, camera_znear) ==
    IF p[3] - s[3] = 0 THEN <<>>
    ELSE <<Vec3(s[1] + MulDiv(p[1] - s[1], -camera_znear - s[3], p[3] - s[3]),
                s[2] + MulDiv(p[2] - s[2], -camera_znear - s[3], p[3] - s[3]),
                -camera_znear)>>

RECURSIVE NearClipFrom(_, _, _, _, _)
NearClipFrom(polygon_cam_space, k, s, output_list, camera_znear) ==
    IF k > Len(polygon_cam_space) THEN output_list
    ELSE LET p == polygon_cam_space[k]
             s_is_inside == s[3] < -camera_znear
             p_is_inside == p[3] < -camera_znear
             added == IF s_is_inside /\ p_is_inside THEN <<p>>
                      ELSE IF s_is_inside /\ ~p_is_inside
                           THEN NearPlaneCrossing(s, p, camera_znear)
                      ELSE IF ~s_is_inside /\ p_is_inside
                           THEN NearPlaneCrossing(s, p, camera_znear) \o <<p>>
                      ELSE <<>>
         IN  With(output_list \o added,
                  LAMBDA extended :
                      NearClipFrom(polygon_cam_space, k + 1, polygon_cam_space[k], extended,
                                   camera_znear))

clip_polygon_near_plane_3d(polygon_cam_space, camera_znear) ==
    IF polygon_cam_space = <<>> THEN <<>>
    ELSE NearClipFrom(polygon_cam_space, 1, polygon_cam_space[Len(polygon_cam_space)],
                      <<>>, camera_znear)

\* f32 division: a zero divisor gives an infinity or a NaN and no failure
FloatQuot(a, b) == IF b = 0 THEN "inf or NaN" ELSE QuotT(a, b)

\* a variant without the guard on a depth close to zero
ProjectWithoutDepthGuard(camera_znear, camera_zfar, near_tolerance, min_depth, p_cam, width, height) ==
    IF p_cam[3] > -camera_znear + near_tolerance \/ p_cam[3] < -camera_zfar THEN None
    ELSE Some(Point2(FloatQuot(width * (-p_cam[3]) + height * focal_length_y * p_cam[1],
                               2 * (-p_cam[3])),
                     FloatQuot(height * (-p_cam[3]) - height * focal_length_y * p_cam[2],
                               2 * (-p_cam[3]))))

\* the body the two projection functions share: None behind the near plane
\* (past the tolerance), beyond the far plane or at a depth below min_depth,
\* else the pixel the point projects to (rounded toward zero)
ProjectCameraSpace(camera_znear, camera_zfar, near_tolerance, min_depth, p_cam, width, height) ==
    IF p_cam[3] > -camera_znear + near_tolerance THEN None
    ELSE IF p_cam[3] < -camera_zfar THEN None
    ELSE IF -p_cam[3] < min_depth THEN None
    ELSE Some(Point2(FloatQuot(width * (-p_cam[3]) + height * focal_length_y * p_cam[1],
                               2 * (-p_cam[3])),
                     FloatQuot(height * (-p_cam[3]) - height * focal_length_y * p_cam[2],
                               2 * (-p_cam[3]))))

\* Camera::project_camera_space_to_screen of the frame's camera, in ticks: a
\* depth below 1e-6 is a depth below one tick
project_camera_space_to_screen(p_cam, width, height) ==
    ProjectCameraSpace(znear, zfar, 0, 1, p_cam, width, height)

RECURSIVE ProjectAllWith(_, _, _, _)
\* the points of a camera-space polygon that project for a camera with the
\* given near plane, in order
ProjectAllWith(camera_znear, points_cam_space, width, height) ==
    IF points_cam_space = <<>> THEN <<>>
    ELSE ProjectCameraSpace(camera_znear, zfar, 0, 1, Head(points_cam_space), width, height)
             \o ProjectAllWith(camera_znear, Tail(points_cam_space), width, height)

RECURSIVE ProjectAll(_, _, _)
\* the points of a camera-space polygon that project, in order
ProjectAll(points_cam_space, width, height) ==
    IF points_cam_space = <<>> THEN <<>>
    ELSE project_camera_space_to_screen(Head(points_cam_space), width, height)
             \o ProjectAll(Tail(points_cam_space), width, height)

\* ------------------------------------------------ side handlers
TraversalState(current_instance_id, accumulated_transform, screen_space_clip_polygon, recursion_depth) ==
    [current_instance_id |-> current_instance_id,
     accumulated_transform |-> accumulated_transform,
     screen_space_clip_polygon |-> screen_space_clip_polygon,
     recursion_depth |-> recursion_depth]

\* the fields of HandlerContext a handler reads or writes; ctx.scene is the pair
\* (blueprints, instances)
HandlerContext(frame_vertices_, frame_indices_, blueprints_, instances_, current_instance, blueprint_side, side_config, transform_to_camera_host_hull, camera_view_from_host_hull, visible_screen_polygon, traversal_queue_, current_recursion_depth) ==
    [frame_vertices |-> frame_vertices_,
     frame_indices |-> frame_indices_,
     blueprints |-> blueprints_,
     instances |-> instances_,
     current_instance |-> current_instance,
     blueprint_side |-> blueprint_side,
     side_config |-> side_config,
     transform_to_camera_host_hull |-> transform_to_camera_host_hull,
     camera_view_from_host_hull |-> camera_view_from_host_hull,
     visible_screen_polygon |-> visible_screen_polygon,
     traversal_queue |-> traversal_queue_,
     current_recursion_depth |-> current_recursion_depth]

\* what a handler leaves behind: the buffers and the queue it was lent, and
\* whether it panicked
HandlerOutcome(frame_vertices_, frame_indices_, traversal_queue_, panicked_) ==
    [frame_vertices |-> frame_vertices_,
     frame_indices |-> frame_indices_,
     traversal_queue |-> traversal_queue_,
     panicked |-> panicked_]

\* a return that has written nothing
Untouched(ctx) ==
    HandlerOutcome(ctx.frame_vertices, ctx.frame_indices, ctx.traversal_queue, FALSE)

Vertex(position, color) == [position |-> position, color |-> color]

RECURSIVE PolygonVertices(_, _)
PolygonVertices(points, color) ==
    IF points = <<>> THEN <<>>
    ELSE <<Vertex(Head(points), color)>> \o PolygonVertices(Tail(points), color)

RECURSIVE FanIndices(_, _, _)
\* for i in 1..(count - 1): start, start + i, start + i + 1 (u16 arithmetic)
FanIndices(start_vertex_index, i, count) ==
    IF i >= count - 1 THEN <<>>
    ELSE <<start_vertex_index,
           (start_vertex_index + i) % 2^16,
           (start_vertex_index + i + 1) % 2^16>>
         \o FanIndices(start_vertex_index, i + 1, count)

StandardWallHandler_process_render(ctx) ==
    LET wall_color == IF ctx.side_config.type = "StandardWall"
                      THEN ctx.side_config.color ELSE "default grey"
        start_vertex_index == Len(ctx.frame_vertices) % 2^16
    IN  IF Len(ctx.visible_screen_polygon) >= 3
        THEN HandlerOutcome(
                 ctx.frame_vertices \o PolygonVertices(ctx.visible_screen_polygon, wall_color),
                 ctx.frame_indices
                     \o FanIndices(start_vertex_index, 1, Len(ctx.visible_screen_polygon) % 2^16),
                 ctx.traversal_queue, FALSE)
        ELSE Untouched(ctx)

Sign(c) == IF c > 0 THEN 1 ELSE IF c < 0 THEN -1 ELSE 0

\* normalize_or_zero of a vector parallel to an axis (every normal of the
\* scenes below is, and a rigid quarter-turn transform keeps it so)
NormalizeOrZero(v) == <<Sign(v[1]) * NormDen, Sign(v[2]) * NormDen, Sign(v[3]) * NormDen>>

\* d_plane_constant: minus the unit normal in camera space, dotted with the
\* side's first vertex in camera space
PlaneConstantInCameraSpace(local_normal, p0_bp_local, transform_to_camera_host_hull, camera_view_from_host_hull) ==
    LET normal_in_host_bp_space ==
            NormalizeOrZero(TransformVector3(transform_to_camera_host_hull, local_normal))
        normal_in_cam_space ==
            NormalizeOrZero(TransformVector3(camera_view_from_host_hull, normal_in_host_bp_space))
        p0_host_hull_space == TransformPoint3(transform_to_camera_host_hull, p0_bp_local)
        p0_cam_space == TransformPoint3(camera_view_from_host_hull, p0_host_hull_space)
    IN  -Dot(normal_in_cam_space, p0_cam_space)

\* a variant that puts the target at the front of the queue
EnqueueAtFront(ctx) ==
    LET portal_alignment_transform ==
            get_portal_alignment_transform(Unwrap(ctx.blueprint_side.local_portal_id),
                                           ctx.side_config.target_portal_id)
        next_transform_to_camera_host_hull ==
            Mat4Mul(ctx.transform_to_camera_host_hull, portal_alignment_transform)
    IN  HandlerOutcome(ctx.frame_vertices, ctx.frame_indices,
                       <<TraversalState(ctx.side_config.target_instance_id,
                                        next_transform_to_camera_host_hull,
                                        ctx.visible_screen_polygon,
                                        ctx.current_recursion_depth + 1)>>
                           \o ctx.traversal_queue,
                       FALSE)

\* the push_back at the end of StandardPortalHandler::process_render
EnqueuePortalTarget(ctx) ==
    LET portal_alignment_transform ==
            get_portal_alignment_transform(Unwrap(ctx.blueprint_side.local_portal_id),
                                           ctx.side_config.target_portal_id)
        next_transform_to_camera_host_hull ==
            Mat4Mul(ctx.transform_to_camera_host_hull, portal_alignment_transform)
    IN  HandlerOutcome(ctx.frame_vertices, ctx.frame_indices,
                       Append(ctx.traversal_queue,
                              TraversalState(ctx.side_config.target_instance_id,
                                             next_transform_to_camera_host_hull,
                                             ctx.visible_screen_polygon,
                                             ctx.current_recursion_depth + 1)),
                       FALSE)

\* a variant whose recursion guard lets one more level through
PortalHandlerOffByOne(ctx) ==
    IF ctx.side_config.type # "StandardPortal" THEN Untouched(ctx)
    ELSE IF ctx.blueprint_side.vertex_indices = <<>> THEN Untouched(ctx)
    ELSE IF ctx.current_instance.blueprint_id \notin DOMAIN ctx.blueprints THEN Untouched(ctx)
    ELSE IF ctx.blueprint_side.vertex_indices[1]
                >= Len(ctx.blueprints[ctx.current_instance.blueprint_id].local_vertices)
         THEN Untouched(ctx)
    ELSE IF PlaneConstantInCameraSpace(
                ctx.blueprint_side.local_normal,
                ctx.blueprints[ctx.current_instance.blueprint_id]
                    .local_vertices[ctx.blueprint_side.vertex_indices[1] + 1],
                ctx.transform_to_camera_host_hull, ctx.camera_view_from_host_hull)
                < -CULLING_EPSILON
         THEN Untouched(ctx)
    ELSE IF ctx.current_recursion_depth > MAX_PORTAL_RECURSION_DEPTH THEN Untouched(ctx)
    ELSE IF ctx.side_config.target_instance_id \notin DOMAIN ctx.instances THEN Untouched(ctx)
    ELSE IF ~IsSome(ctx.blueprint_side.local_portal_id)
         THEN HandlerOutcome(ctx.frame_vertices, ctx.frame_indices, ctx.traversal_queue, TRUE)
    ELSE EnqueuePortalTarget(ctx)

\* a variant that takes the target instance to exist
PortalHandlerTrustingTarget(ctx) ==
    IF ctx.side_config.type # "StandardPortal" THEN Untouched(ctx)
    ELSE IF ctx.blueprint_side.vertex_indices = <<>> THEN Untouched(ctx)
    ELSE IF ctx.current_instance.blueprint_id \notin DOMAIN ctx.blueprints THEN Untouched(ctx)
    ELSE IF ctx.blueprint_side.vertex_indices[1]
                >= Len(ctx.blueprints[ctx.current_instance.blueprint_id].local_vertices)
         THEN Untouched(ctx)
    ELSE IF PlaneConstantInCameraSpace(
                ctx.blueprint_side.local_normal,
                ctx.blueprints[ctx.current_instance.blueprint_id]
                    .local_vertices[ctx.blueprint_side.vertex_indices[1] + 1],
                ctx.transform_to_camera_host_hull, ctx.camera_view_from_host_hull)
                < -CULLING_EPSILON
         THEN Untouched(ctx)
    ELSE IF ctx.current_recursion_depth >= MAX_PORTAL_RECURSION_DEPTH THEN Untouched(ctx)
    ELSE IF ~IsSome(ctx.blueprint_side.local_portal_id)
         THEN HandlerOutcome(ctx.frame_vertices, ctx.frame_indices, ctx.traversal_queue, TRUE)
    ELSE EnqueuePortalTarget(ctx)

StandardPortalHandler_process_render(ctx) ==
    IF ctx.side_config.type # "StandardPortal" THEN Untouched(ctx)
    ELSE IF ctx.blueprint_side.vertex_indices = <<>> THEN Untouched(ctx)
    ELSE IF ctx.current_instance.blueprint_id \notin DOMAIN ctx.blueprints THEN Untouched(ctx)
    ELSE IF ctx.blueprint_side.vertex_indices[1]
                >= Len(ctx.blueprints[ctx.current_instance.blueprint_id].local_vertices)
         THEN Untouched(ctx)
    ELSE IF PlaneConstantInCameraSpace(
                ctx.blueprint_side.local_normal,
                ctx.blueprints[ctx.current_instance.blueprint_id]
                    .local_vertices[ctx.blueprint_side.vertex_indices[1] + 1],
                ctx.transform_to_camera_host_hull, ctx.camera_view_from_host_hull)
                < -CULLING_EPSILON
         THEN Untouched(ctx)
    ELSE IF ctx.current_recursion_depth >= MAX_PORTAL_RECURSION_DEPTH THEN Untouched(ctx)
    ELSE IF ctx.side_config.target_instance_id \notin DOMAIN ctx.instances THEN Untouched(ctx)
    ELSE IF ~IsSome(ctx.blueprint_side.local_portal_id)
         THEN HandlerOutcome(ctx.frame_vertices, ctx.frame_indices, ctx.traversal_queue, TRUE)
    ELSE EnqueuePortalTarget(ctx)

\* ------------------------------------------------ one frame's traversal
\* the full-viewport clip polygon
Viewport ==
    ConvexPolygon_from_points(<<Point2(0, 0), Point2(screen_width, 0),
                                Point2(screen_width, screen_height), Point2(0, screen_height)>>)

\* Camera::get_view_matrix_from_host_hull
get_view_matrix_from_host_hull(camera_pose_in_host_hull) == Mat4Inverse(camera_pose_in_host_hull)

RECURSIVE SideInCameraSpace(_, _, _, _)
\* step 1: the side's local vertices taken into camera view space
SideInCameraSpace(vertex_indices, local_vertices, accumulated_transform, view) ==
    IF vertex_indices = <<>> THEN <<>>
    ELSE <<TransformPoint3(view, TransformPoint3(accumulated_transform,
                                                 local_vertices[Head(vertex_indices) + 1]))>>
         \o SideInCameraSpace(Tail(vertex_indices), local_vertices, accumulated_transform, view)

\* steps 1 to 5 for one side: what is left of it on screen inside the aperture
VisibleScreenPolygon(state, blueprint, side, view) ==
    IF side.vertex_indices = <<>> THEN <<>>
    ELSE IF PlaneConstantInCameraSpace(side.local_normal, PointOnPlane(blueprint, side),
                                       state.accumulated_transform, view) < -CULLING_EPSILON
         THEN <<>>
    ELSE LET clipped_vertices_cam_space ==
                 clip_polygon_near_plane_3d(
                     SideInCameraSpace(side.vertex_indices, blueprint.local_vertices,
                                       state.accumulated_transform, view),
                     znear)
             projected == ConvexPolygon_from_points(
                              ProjectAll(clipped_vertices_cam_space, screen_width, screen_height))
         IN  IF Len(clipped_vertices_cam_space) < 3 \/ Len(projected) < 3 THEN <<>>
             ELSE find_intersection_into(projected, state.screen_space_clip_polygon)

\* step 6: the handler of the effective configuration's type
Dispatch(ctx) ==
    CASE ctx.side_config.type = "StandardWall" -> StandardWallHandler_process_render(ctx)
      [] ctx.side_config.type = "StandardPortal" -> StandardPortalHandler_process_render(ctx)

\* the frame starts: the buffers are cleared and the host instance is queued
render_begin ==
    /\ render_phase = "idle"
    /\ render_phase' = "running"
    /\ frame_vertices' = <<>>
    /\ frame_indices' = <<>>
    /\ traversal_queue' =
           <<TraversalState(active_camera_instance_id, Mat4Identity, Viewport, 0)>>
    /\ render_current' = None
    /\ side_index' = 0
    /\ UNCHANGED <<kernelVars, cameraVars, oldVars>>

\* the next state is taken off the queue; a state whose instance or blueprint
\* is missing is dropped
pop_front ==
    /\ render_phase = "running"
    /\ render_current = None
    /\ traversal_queue # <<>>
    /\ traversal_queue' = Tail(traversal_queue)
    /\ LET state == Head(traversal_queue) IN
       IF /\ state.current_instance_id \in DOMAIN instances
          /\ instances[state.current_instance_id].blueprint_id \in DOMAIN blueprints
          /\ blueprints[instances[state.current_instance_id].blueprint_id].sides # <<>>
       THEN render_current' = Some(state)
       ELSE render_current' = None
    /\ side_index' = 0
    /\ UNCHANGED <<kernelVars, cameraVars, oldVars, frame_vertices, frame_indices, render_phase>>

\* one side of the state in hand is processed and handed to its handler
process_side ==
    /\ render_phase = "running"
    /\ render_current # None
    /\ LET state == Unwrap(render_current)
           current_instance == instances[state.current_instance_id]
           blueprint == blueprints[current_instance.blueprint_id]
           blueprint_side == SideAt(blueprint, side_index)
           view == get_view_matrix_from_host_hull(active_camera_local_transform)
       IN  \E visible_screen_polygon \in
                   {VisibleScreenPolygon(state, blueprint, blueprint_side, view)} :
           \E outcome \in
                   {IF Len(visible_screen_polygon) < 3
                    THEN HandlerOutcome(frame_vertices, frame_indices, traversal_queue, FALSE)
                    ELSE Dispatch(HandlerContext(
                             frame_vertices, frame_indices, blueprints, instances,
                             current_instance, blueprint_side,
                             EffectiveConfig(current_instance, blueprint_side, side_index),
                             state.accumulated_transform, view, visible_screen_polygon,
                             traversal_queue, state.recursion_depth))} :
              /\ frame_vertices' = outcome.frame_vertices
              /\ frame_indices' = outcome.frame_indices
              /\ traversal_queue' = outcome.traversal_queue
              /\ render_phase' = IF outcome.panicked THEN "panicked" ELSE render_phase
              /\ IF side_index + 1 < Len(blueprint.sides)
                 THEN /\ side_index' = side_index + 1
                      /\ render_current' = render_current
                 ELSE /\ side_index' = 0
                      /\ render_current' = None
    /\ UNCHANGED <<kernelVars, cameraVars, oldVars>>

\* the queue is drained: the frame's traversal returns
render_return ==
    /\ render_phase = "running"
    /\ render_current = None
    /\ traversal_queue = <<>>
    /\ render_phase' = "returned"
    /\ UNCHANGED <<kernelVars, cameraVars, oldVars, frame_vertices, frame_indices, traversal_queue,
                   render_current, side_index>>

\* ------------------------------------------------ the hull-list frame loop
\* Renderer::render_scene over a scene of world-space hulls: its TraversalState
\* is (hull_id, screen_space_clip_polygon) and carries no depth
SceneSide(vertices_3d, normal, is_portal, connected_hull_id, color) ==
    [vertices_3d |-> vertices_3d, normal |-> normal, is_portal |-> is_portal,
     connected_hull_id |-> connected_hull_id, color |-> color]

Hull(id, sides) == [id |-> id, sides |-> sides]

HullTraversalState(hull_id, screen_space_clip_polygon) ==
    [hull_id |-> hull_id, screen_space_clip_polygon |-> screen_space_clip_polygon]

\* yaw and pitch in quarter turns
Camera(position, yaw, pitch) == [position |-> position, yaw |-> yaw, pitch |-> pitch]

transform_to_camera_space(cam, world_point) ==
    LET p_cam == VSub(world_point, cam.position)
        x_rotated_yaw == p_cam[1] * CosQ(cam.yaw) - p_cam[3] * SinQ(cam.yaw)
        z_rotated_yaw == p_cam[1] * SinQ(cam.yaw) + p_cam[3] * CosQ(cam.yaw)
        y_rotated_pitch == p_cam[2] * CosQ(cam.pitch) - z_rotated_yaw * SinQ(cam.pitch)
        z_rotated_pitch == p_cam[2] * SinQ(cam.pitch) + z_rotated_yaw * CosQ(cam.pitch)
    IN  Vec3(x_rotated_yaw, y_rotated_pitch, z_rotated_pitch)

RECURSIVE VerticesInCameraSpace(_, _)
VerticesInCameraSpace(cam, vertices_3d) ==
    IF vertices_3d = <<>> THEN <<>>
    ELSE <<transform_to_camera_space(cam, Head(vertices_3d))>>
         \o VerticesInCameraSpace(cam, Tail(vertices_3d))

\* what the loop body makes of a side before it looks at the queue: the
\* projected polygon, or nothing where the body says continue
ProjectedSide(cam, side) ==
    IF side.vertices_3d = <<>> THEN <<>>
    ELSE IF Dot(VSub(side.vertices_3d[1], cam.position), side.normal) <= BACKFACE_THRESHOLD
         THEN <<>>
    ELSE With(VerticesInCameraSpace(cam, side.vertices_3d),
              LAMBDA polygon_cam_space :
                  With(clip_polygon_near_plane_3d(polygon_cam_space, znear),
                       LAMBDA clipped_vertices_cam_space :
                           With(ProjectAll(clipped_vertices_cam_space,
                                           screen_width, screen_height),
                                LAMBDA projected_points_2d :
                                    IF \/ Len(clipped_vertices_cam_space) < 3
                                       \/ Len(projected_points_2d) < 3
                                    THEN <<>>
                                    ELSE ConvexPolygon_from_points(projected_points_2d))))

\* add_polygon_to_frame: the two buffers after the call
add_polygon_to_frame(buffers, polygon_2d, color) ==
    IF Len(polygon_2d) < 3 THEN buffers
    ELSE [frame_vertices |-> buffers.frame_vertices \o PolygonVertices(polygon_2d, color),
          frame_indices |-> buffers.frame_indices
              \o FanIndices(Len(buffers.frame_vertices) % 2^16, 1, Len(polygon_2d) % 2^16)]

\* whether the queue holds a state for the hull with exactly these vertices
Queued(queue, next_hull_id, v_next) ==
    \E i \in 1..Len(queue) :
        queue[i].hull_id = next_hull_id /\ queue[i].screen_space_clip_polygon = v_next

\* the portal branch of the side loop's body
AfterPortalSide(side, v_current, processed, acc, p_projected_clipped) ==
    IF ~IsSome(side.connected_hull_id) THEN acc
    ELSE With(find_intersection_into(v_current, p_projected_clipped),
              LAMBDA v_next :
                  IF /\ Len(v_next) >= 3
                     /\ \/ Unwrap(side.connected_hull_id) \notin processed
                        \/ ~Queued(acc.queue, Unwrap(side.connected_hull_id), v_next)
                  THEN [acc EXCEPT !.queue =
                            Append(acc.queue,
                                   HullTraversalState(Unwrap(side.connected_hull_id), v_next))]
                  ELSE acc)

\* the queue and buffers after the body of the side loop has run for one side
AfterSide(cam, side, v_current, processed, acc) ==
    With(ProjectedSide(cam, side),
         LAMBDA p_projected_clipped :
             IF Len(p_projected_clipped) < 3 THEN acc
             ELSE IF side.is_portal
             THEN AfterPortalSide(side, v_current, processed, acc, p_projected_clipped)
             ELSE With(find_intersection_into(p_projected_clipped, v_current),
                       LAMBDA polygon_2d :
                           [acc EXCEPT !.buffers =
                                add_polygon_to_frame(acc.buffers, polygon_2d, side.color)]))

RECURSIVE AfterSidesFrom(_, _, _, _, _, _)
AfterSidesFrom(cam, sides, k, v_current, processed, acc) ==
    IF k > Len(sides) THEN acc
    ELSE With(AfterSide(cam, sides[k], v_current, processed, acc),
              LAMBDA next_acc :
                  AfterSidesFrom(cam, sides, k + 1, v_current, processed, next_acc))

\* the frame starts: hull 0 is queued with the full viewport if there is a hull
render_scene_begin ==
    /\ render_phase = "idle"
    /\ render_phase' = "running"
    /\ frame_vertices' = <<>>
    /\ frame_indices' = <<>>
    /\ traversal_queue' = IF hulls # <<>> THEN <<HullTraversalState(0, Viewport)>> ELSE <<>>
    /\ processed_hulls_this_frame' = {}
    /\ render_current' = None
    /\ UNCHANGED <<kernelVars, cameraVars, side_index, hulls, camera>>

\* the head of the while loop: pop_front hands out the next state
render_scene_pop_front ==
    /\ render_phase = "running"
    /\ render_current = None
    /\ traversal_queue # <<>>
    /\ render_current' = Some(Head(traversal_queue))
    /\ traversal_queue' = Tail(traversal_queue)
    /\ UNCHANGED <<kernelVars, cameraVars, side_index, hulls, camera, render_phase,
                   frame_vertices, frame_indices, processed_hulls_this_frame>>

\* the body of the while loop for the state in hand: the hull's sides are
\* processed, unless one of the two continue statements is taken
render_scene_body ==
    /\ render_phase = "running"
    /\ render_current # None
    /\ render_current' = None
    /\ LET current_state == Unwrap(render_current)
       IN  IF /\ current_state.hull_id \in processed_hulls_this_frame
              /\ Len(traversal_queue) > Len(hulls) * 2
           THEN UNCHANGED <<traversal_queue, processed_hulls_this_frame,
                            frame_vertices, frame_indices>>
           ELSE /\ processed_hulls_this_frame' =
                       processed_hulls_this_frame \cup {current_state.hull_id}
                /\ IF current_state.hull_id >= Len(hulls)
                   THEN UNCHANGED <<traversal_queue, frame_vertices, frame_indices>>
                   ELSE \E acc \in
                            {AfterSidesFrom(
                                 camera, hulls[current_state.hull_id + 1].sides, 1,
                                 current_state.screen_space_clip_polygon,
                                 processed_hulls_this_frame \cup {current_state.hull_id},
                                 [queue |-> traversal_queue,
                                  buffers |-> [frame_vertices |-> frame_vertices,
                                               frame_indices |-> frame_indices]])} :
                            /\ traversal_queue' = acc.queue
                            /\ frame_vertices' = acc.buffers.frame_vertices
                            /\ frame_indices' = acc.buffers.frame_indices
    /\ UNCHANGED <<kernelVars, cameraVars, side_index, hulls, camera, render_phase>>

\* pop_front found the queue empty: the loop is left
render_scene_end ==
    /\ render_phase = "running"
    /\ render_current = None
    /\ traversal_queue = <<>>
    /\ render_phase' = "returned"
    /\ UNCHANGED <<kernelVars, cameraVars, render_current, side_index, hulls, camera, traversal_queue,
                   frame_vertices, frame_indices, processed_hulls_this_frame>>

\* ------------------------------------------------ frames that are rendered
\* two rooms joined into a ring: each room's FRONT leads to the other's BACK
\* and each room's BACK to the other's FRONT
RingInstances ==
    (ROOM1_INSTANCE_ID :> HullInstance(CUBOID_BLUEPRINT_ID,
        (0 :> StandardPortal(ROOM2_INSTANCE_ID, PORTAL_ID_BACK))
        @@ (1 :> StandardPortal(ROOM2_INSTANCE_ID, PORTAL_ID_FRONT))))
    @@ (ROOM2_INSTANCE_ID :> HullInstance(CUBOID_BLUEPRINT_ID,
        (0 :> StandardPortal(ROOM1_INSTANCE_ID, PORTAL_ID_BACK))
        @@ (1 :> StandardPortal(ROOM1_INSTANCE_ID, PORTAL_ID_FRONT))))

RingScene ==
    [blueprints |-> MvpBlueprints,
     instances |-> RingInstances,
     active_camera_instance_id |-> ROOM1_INSTANCE_ID,
     active_camera_local_transform |-> MvpScene.active_camera_local_transform]

\* a room with three portals into a second room, which has one portal into a
\* room of walls: states of two depths wait in the queue together
FORK_END_INSTANCE_ID == ROOM2_INSTANCE_ID + 3

ForkInstances ==
    (ROOM1_INSTANCE_ID :> HullInstance(CUBOID_BLUEPRINT_ID,
        (0 :> StandardPortal(ROOM2_INSTANCE_ID, PORTAL_ID_BACK))
        @@ (2 :> StandardPortal(ROOM2_INSTANCE_ID, PORTAL_ID_RIGHT))
        @@ (3 :> StandardPortal(ROOM2_INSTANCE_ID, PORTAL_ID_LEFT))))
    @@ (ROOM2_INSTANCE_ID :> HullInstance(CUBOID_BLUEPRINT_ID,
        (0 :> StandardPortal(FORK_END_INSTANCE_ID, PORTAL_ID_BACK))))
    @@ (FORK_END_INSTANCE_ID :> HullInstance(CUBOID_BLUEPRINT_ID, <<>>))

ForkScene ==
    [blueprints |-> MvpBlueprints,
     instances |-> ForkInstances,
     active_camera_instance_id |-> ROOM1_INSTANCE_ID,
     active_camera_local_transform |-> MvpScene.active_camera_local_transform]

RenderScenes == Scenes \cup {RingScene, ForkScene}

\* where the camera stands in its host hull when the frame is drawn
RenderPositions == {Vec3(0, 0, 0), Vec3(0, 0, -10000), Vec3(5000, 0, 0)}

RenderRotations == {RotY(0), RotY(1), RotY(2)}

\* the eight corners of an axis-parallel box, numbered as create_mvp_scene numbers them
BoxVertices(center, h) ==
    <<VAdd(center, Vec3(-h, -h, -h)), VAdd(center, Vec3(h, -h, -h)),
      VAdd(center, Vec3(h, h, -h)), VAdd(center, Vec3(-h, h, -h)),
      VAdd(center, Vec3(-h, -h, h)), VAdd(center, Vec3(h, -h, h)),
      VAdd(center, Vec3(h, h, h)), VAdd(center, Vec3(-h, h, h))>>

\* the face of a box given by four of its corner numbers
Face(box, a, b, c, d) == <<box[a + 1], box[b + 1], box[c + 1], box[d + 1]>>

create_mvp_scene ==
    LET r1_v == BoxVertices(Vec3(0, 0, -30000), half_size)
        r2_v == BoxVertices(Vec3(0, 0, -30000 + 2 * half_size + 1000), half_size)
    IN  <<Hull(0, <<
              SceneSide(Face(r1_v, 4, 5, 6, 7), Vec3(0, 0, NormDen), TRUE, Some(1), "none"),
              SceneSide(Face(r1_v, 0, 4, 7, 3), Vec3(-NormDen, 0, 0), FALSE, None, "red"),
              SceneSide(Face(r1_v, 5, 1, 2, 6), Vec3(NormDen, 0, 0), FALSE, None, "green"),
              SceneSide(Face(r1_v, 4, 0, 1, 5), Vec3(0, -NormDen, 0), FALSE, None, "blue"),
              SceneSide(Face(r1_v, 3, 7, 6, 2), Vec3(0, NormDen, 0), FALSE, None, "yellow"),
              SceneSide(Face(r1_v, 1, 0, 3, 2), Vec3(0, 0, -NormDen), FALSE, None, "grey")>>),
          Hull(1, <<
              SceneSide(Face(r2_v, 3, 2, 1, 0), Vec3(0, 0, -NormDen), TRUE, Some(0), "none"),
              SceneSide(Face(r2_v, 5, 4, 7, 6), Vec3(0, 0, NormDen), FALSE, None, "orange"),
              SceneSide(Face(r2_v, 0, 4, 7, 3), Vec3(-NormDen, 0, 0), FALSE, None, "teal"),
              SceneSide(Face(r2_v, 5, 1, 2, 6), Vec3(NormDen, 0, 0), FALSE, None, "purple"),
              SceneSide(Face(r2_v, 4, 0, 1, 5), Vec3(0, -NormDen, 0), FALSE, None, "dark teal"),
              SceneSide(Face(r2_v, 3, 7, 6, 2), Vec3(0, NormDen, 0), FALSE, None, "dark red")>>)>>

\* the far face of a room as a portal into hull next_hull_id
FarPortal(center, next_hull_id) ==
    SceneSide(Face(BoxVertices(center, half_size), 1, 0, 3, 2), Vec3(0, 0, -NormDen),
              TRUE, Some(next_hull_id), "none")

\* one hull whose far face is a portal into the hull itself
SelfPortalHulls == <<Hull(0, <<FarPortal(Vec3(0, 0, -30000), 0)>>)>>

\* two hulls in a row, the far face of each a portal into the other
TwoCycleHulls ==
    <<Hull(0, <<FarPortal(Vec3(0, 0, -30000), 1)>>),
      Hull(1, <<FarPortal(Vec3(0, 0, -60000), 0)>>)>>

\* a portal into a hull the scene does not have, and a side without vertices
DanglingHulls ==
    <<Hull(0, <<FarPortal(Vec3(0, 0, -30000), 2),
                SceneSide(<<>>, Vec3(0, 0, NormDen), FALSE, None, "grey"),
                SceneSide(Face(BoxVertices(Vec3(0, 0, -30000), half_size), 0, 4, 7, 3),
                          Vec3(-NormDen, 0, 0), TRUE, None, "none")>>)>>

HullScenes == {<<>>, create_mvp_scene, SelfPortalHulls, TwoCycleHulls, DanglingHulls}

HullCameras ==
    {Camera(Vec3(x, 0, z), yaw, 0) : x \in {0, 5000}, z \in {0, -30000}, yaw \in {0, 2}}

\* ---------------------------------------------------- proposed camera moves
\* how far past a face a proposed position lies, in ticks
Overshoots == {k * k + 1 : k \in 0..MaxStep}

\* a penetration deep enough to violate the plane of a short normal
DeepOvershoot == 4000

\* past the FRONT plane by each overshoot, past the BACK plane by one of them
ProposedZ == {0} \cup {half_size + d : d \in Overshoots} \cup {-(half_size + 2)}

ProposedX == {0, half_size + 2, -(half_size + 2), -(half_size + DeepOvershoot)}

ProposedY == {0, half_size + 2, -(half_size + DeepOvershoot)}

NonZeroCount(p) == Cardinality({c \in 1..3 : p[c] # 0})

\* positions in the room, past one face, or past two faces at an edge
ProposedPositions ==
    {p \in {Vec3(x, y, z) : x \in ProposedX, y \in ProposedY, z \in ProposedZ} :
        NonZeroCount(p) <= 2}

\* looking down -Z, down -X, and down +Z (the demo's start)
ProposedRotations == {Mat4FromRot(RotY(0)), Mat4FromRot(RotY(1)), Mat4FromRot(RotY(2))}

\* ------------------------------------------------ specifications
\* the camera is moved, no frame is drawn
Init ==
    /\ \E scene \in Scenes :
          /\ blueprints = scene.blueprints
          /\ instances = scene.instances
          /\ active_camera_instance_id = scene.active_camera_instance_id
          /\ active_camera_local_transform = scene.active_camera_local_transform
    /\ last_call = NoCall
    /\ panicked = FALSE
    /\ render_phase = "off"
    /\ traversal_queue = <<>>
    /\ render_current = None
    /\ side_index = 0
    /\ frame_vertices = <<>>
    /\ frame_indices = <<>>
    /\ hulls = <<>>
    /\ camera = Camera(Vec3(0, 0, 0), 0, 0)
    /\ processed_hulls_this_frame = {}
    /\ polygon = ConvexPolygon_new
    /\ kernel_call = NoKernelCall

UpdateCamera ==
    \E p \in ProposedPositions, r \in ProposedRotations : update_camera_in_scene(p, r)

Next == UpdateCamera

vars == <<cameraVars, renderVars, oldVars, kernelVars>>

Spec == Init /\ [][Next]_vars

\* one frame of a scene of blueprints and instances is drawn
RenderInit ==
    /\ \E scene \in RenderScenes, position \in RenderPositions, rotation \in RenderRotations :
          /\ blueprints = scene.blueprints
          /\ instances = scene.instances
          /\ active_camera_instance_id = scene.active_camera_instance_id
          /\ active_camera_local_transform = Mat4(rotation, position)
    /\ last_call = NoCall
    /\ panicked = FALSE
    /\ render_phase = "idle"
    /\ traversal_queue = <<>>
    /\ render_current = None
    /\ side_index = 0
    /\ frame_vertices = <<>>
    /\ frame_indices = <<>>
    /\ hulls = <<>>
    /\ camera = Camera(Vec3(0, 0, 0), 0, 0)
    /\ processed_hulls_this_frame = {}
    /\ polygon = ConvexPolygon_new
    /\ kernel_call = NoKernelCall

RenderNext == render_begin \/ pop_front \/ process_side \/ render_return

RenderSpec == RenderInit /\ [][RenderNext]_vars

\* one frame of a scene of world-space hulls is drawn; the loop runs on as
\* long as it can take a step
HullLoopInit ==
    /\ blueprints = MvpScene.blueprints
    /\ instances = MvpScene.instances
    /\ active_camera_instance_id = MvpScene.active_camera_instance_id
    /\ active_camera_local_transform = MvpScene.active_camera_local_transform
    /\ last_call = NoCall
    /\ panicked = FALSE
    /\ render_phase = "idle"
    /\ traversal_queue = <<>>
    /\ render_current = None
    /\ side_index = 0
    /\ frame_vertices = <<>>
    /\ frame_indices = <<>>
    /\ hulls \in HullScenes
    /\ camera \in HullCameras
    /\ processed_hulls_this_frame = {}
    /\ polygon = ConvexPolygon_new
    /\ kernel_call = NoKernelCall

HullLoopNext ==
    render_scene_begin \/ render_scene_pop_front \/ render_scene_body \/ render_scene_end

HullLoopSpec == HullLoopInit /\ [][HullLoopNext]_vars /\ WF_vars(HullLoopNext)

\* ------------------------------------------------ the geometry kernel, called alone
\* the polygons the kernel is called with, as point lists
Square04 == <<Point2(0, 0), Point2(4, 0), Point2(4, 4), Point2(0, 4)>>
Square26 == <<Point2(2, 2), Point2(6, 2), Point2(6, 6), Point2(2, 6)>>
\* the same square, wound the other way
Square04Clockwise == <<Point2(0, 4), Point2(4, 4), Point2(4, 0), Point2(0, 0)>>
SmallTriangle == <<Point2(1, 1), Point2(3, 1), Point2(2, 3)>>
\* a convex polygon that fills the vertex array
Hexadecagon ==
    <<Point2(120, 0), Point2(168, 12), Point2(204, 36), Point2(228, 72),
      Point2(240, 120), Point2(228, 168), Point2(204, 204), Point2(168, 228),
      Point2(120, 240), Point2(72, 228), Point2(36, 204), Point2(12, 168),
      Point2(0, 120), Point2(12, 72), Point2(36, 36), Point2(72, 12)>>
\* a rectangle with every other polygon strictly inside it
Box == <<Point2(-12, -12), Point2(252, -12), Point2(252, 252), Point2(-12, 252)>>
\* a rectangle that cuts the top vertex off the hexadecagon: 17 vertices emitted
Slab == <<Point2(0, 0), Point2(240, 0), Point2(240, 234), Point2(0, 234)>>
\* a rectangle that cuts the hexadecagon on two sides
Window == <<Point2(12, 12), Point2(228, 12), Point2(228, 300), Point2(12, 300)>>
BigTriangle == <<Point2(0, 0), Point2(240, 0), Point2(0, 240)>>
\* 16 vertices, alternately below and above the line y = 4
Zigzag == [i \in 1..MAX_VERTICES |-> Point2(2 * (i - 1), IF i % 2 = 1 THEN 0 ELSE 8)]
\* one point more than the vertex array holds
Heptadecagon == Hexadecagon \o <<Point2(96, 6)>>
NoPoints == <<>>
OnePoint == <<Point2(1, 1)>>
TwoPoints == <<Point2(0, 0), Point2(4, 4)>>

KernelPolygons ==
    {Square04, Square26, Square04Clockwise, SmallTriangle, Hexadecagon, Box, Slab, Window,
     BigTriangle, Zigzag, NoPoints, OnePoint, TwoPoints}

\* the clip edges clip_polygon_by_edge is called with
KernelClipEdges ==
    {<<Point2(0, 4), Point2(40, 4)>>, <<Point2(40, 4), Point2(0, 4)>>,
     <<Point2(0, 234), Point2(240, 234)>>, <<Point2(240, 234), Point2(0, 234)>>,
     <<Point2(2, 0), Point2(2, 8)>>, <<Point2(0, 0), Point2(8, 8)>>,
     <<Point2(0, 0), Point2(30, 0)>>, <<Point2(5, 5), Point2(5, 5)>>}

\* depths and offsets of the projected points, in units of 1e-7
FINE_MIN_DEPTH == 10
FINE_NEAR_TOLERANCE == 10
FineZnear == 1000
FineZfar == 5000
ProjectZnears == {0, FineZnear}
ProjectDepthOffsets == {-20, -11, -10, -9, -5, -1, 0, 1, 5, 9, 10, 11, 20}
ProjectDepths(camera_znear) ==
    {-camera_znear - d : d \in ProjectDepthOffsets} \cup {-FineZfar, -FineZfar - 1}
ProjectOffsets == {0, 7}

\* the largest number of quads a short frame has emitted before
ShortFrame == 8
\* the number of quads whose vertices fill the range of a u16 index
QuadsFillingU16 == 2^16 \div 4
\* how many quads the frame has emitted before the emission called
QuadsBefore == 0..ShortFrame \cup {QuadsFillingU16 - 1, QuadsFillingU16}

EmittedQuad == <<Point2(0, 0), Point2(4, 0), Point2(4, 4), Point2(0, 4)>>

\* the vertex list after n emissions of the quad
VerticesAfterQuads(n) ==
    <<>> \o [j \in 1..(4 * n) |-> Vertex(EmittedQuad[((j - 1) % 4) + 1], "white")]

\* the index list after n emissions of the quad: start, start + 1, start + 2,
\* start, start + 2, start + 3 for each of them
IndicesAfterQuads(n) ==
    <<>> \o [j \in 1..(6 * n) |->
                (4 * ((j - 1) \div 6) + <<0, 1, 2, 0, 2, 3>>[((j - 1) % 6) + 1]) % 2^16]

\* the polygons emitted
EmittedPolygons ==
    {<<Point2(0, 0), Point2(4, 0), Point2(0, 4)>>, EmittedQuad,
     <<Point2(0, 0), Point2(4, 0), Point2(6, 2), Point2(4, 4), Point2(0, 4)>>}

\* start + i + 1 leaves the range of u16 for some i of the fan
FanOverflows(start_vertex_index, count) == start_vertex_index + count - 1 >= 2^16

RECURSIVE FanIndicesChecked(_, _, _)
\* the indices pushed by a build with overflow checks, which panics at the
\* first sum that leaves the range of u16
FanIndicesChecked(start_vertex_index, i, count) ==
    IF i >= count - 1 THEN <<>>
    ELSE IF start_vertex_index + i >= 2^16 THEN <<start_vertex_index>>
    ELSE IF start_vertex_index + i + 1 >= 2^16
         THEN <<start_vertex_index, start_vertex_index + i>>
    ELSE <<start_vertex_index, start_vertex_index + i, start_vertex_index + i + 1>>
         \o FanIndicesChecked(start_vertex_index, i + 1, count)

\* the emissions called: the buffers are those of a frame that has emitted
\* quads_before quads
EmitCalls ==
    {[op |-> "emit", returned |-> FALSE, handler |-> handler, quads_before |-> n,
      polygon_2d |-> polygon_2d, overflow_checks |-> overflow_checks,
      vertices_pushed |-> <<>>, indices_pushed |-> <<>>, panicked |-> FALSE] :
        handler \in {"StandardWallHandler::process_render", "Renderer::add_polygon_to_frame"},
        n \in QuadsBefore, polygon_2d \in EmittedPolygons, overflow_checks \in BOOLEAN}

\* the buffers a handler or add_polygon_to_frame leaves behind
BuffersWritten(handler, frame_vertices_, frame_indices_, polygon_2d) ==
    IF handler = "StandardWallHandler::process_render"
    THEN StandardWallHandler_process_render(
             HandlerContext(frame_vertices_, frame_indices_, blueprints, instances,
                            instances[ROOM1_INSTANCE_ID],
                            SideAt(blueprints[CUBOID_BLUEPRINT_ID], 0), StandardWall("white"),
                            Mat4Identity, Mat4Identity, polygon_2d, <<>>, 0))
    ELSE add_polygon_to_frame([frame_vertices |-> frame_vertices_,
                               frame_indices |-> frame_indices_], polygon_2d, "white")

\* one emission into the buffers of a frame: what it pushes onto the vertex
\* list and onto the index list, in a build with or without overflow checks
emit ==
    /\ kernel_call.op = "emit"
    /\ ~kernel_call.returned
    /\ LET vertices_before == VerticesAfterQuads(kernel_call.quads_before)
           indices_before == IndicesAfterQuads(kernel_call.quads_before)
           count == Len(kernel_call.polygon_2d)
           start_vertex_index == Len(vertices_before) % 2^16
           overflowed == kernel_call.overflow_checks /\ FanOverflows(start_vertex_index, count)
           written == BuffersWritten(kernel_call.handler, vertices_before, indices_before,
                                     kernel_call.polygon_2d)
       IN  kernel_call' =
               [kernel_call EXCEPT
                   !.returned = TRUE,
                   !.vertices_pushed = SubSeq(written.frame_vertices, Len(vertices_before) + 1,
                                              Len(written.frame_vertices)),
                   !.indices_pushed =
                       IF overflowed THEN FanIndicesChecked(start_vertex_index, 1, count)
                       ELSE SubSeq(written.frame_indices, Len(indices_before) + 1,
                                   Len(written.frame_indices)),
                   !.panicked = overflowed]
    /\ UNCHANGED <<polygon, cameraVars, renderVars, oldVars>>

\* the calls made into the kernel, each with its inputs
IntersectCalls ==
    {[op |-> "find_intersection_into", returned |-> FALSE,
      poly1 |-> FromPoints(points1), poly2 |-> FromPoints(points2)] :
        points1 \in KernelPolygons, points2 \in KernelPolygons}

ClipPassCalls ==
    {[op |-> "clip_polygon_by_edge", returned |-> FALSE, subject_vertices |-> subject_vertices,
      clip_edge_start |-> clip_edge[1], clip_edge_end |-> clip_edge[2]] :
        subject_vertices \in KernelPolygons, clip_edge \in KernelClipEdges}

ProjectCallsWith(camera_znear) ==
    {[op |-> "project", returned |-> FALSE, znear |-> camera_znear,
      near_tolerance |-> near_tolerance, p_cam |-> Vec3(x, y, z), projected |-> None] :
        near_tolerance \in {0, FINE_NEAR_TOLERANCE}, x \in ProjectOffsets,
        y \in ProjectOffsets, z \in ProjectDepths(camera_znear)}

ProjectCalls == UNION {ProjectCallsWith(camera_znear) : camera_znear \in ProjectZnears}

\* let mut result = ConvexPolygon::new(); find_intersection_into(&poly1, &poly2, &mut result)
intersect_into_new ==
    /\ kernel_call.op = "find_intersection_into"
    /\ ~kernel_call.returned
    /\ polygon' = FindIntersectionInto(kernel_call.poly1, kernel_call.poly2, ConvexPolygon_new)
    /\ kernel_call' = [kernel_call EXCEPT !.returned = TRUE]
    /\ UNCHANGED <<cameraVars, renderVars, oldVars>>

\* output_count = clip_polygon_by_edge(subject, count, start, end, &mut output)
\* on a fresh output array
clip_pass ==
    /\ kernel_call.op = "clip_polygon_by_edge"
    /\ ~kernel_call.returned
    /\ LET output == clip_polygon_by_edge(kernel_call.subject_vertices,
                                          kernel_call.clip_edge_start,
                                          kernel_call.clip_edge_end)
       IN  polygon' = [vertices |-> CopyInto(ConvexPolygon_new.vertices, output, Len(output)),
                       count |-> Len(output)]
    /\ kernel_call' = [kernel_call EXCEPT !.returned = TRUE]
    /\ UNCHANGED <<cameraVars, renderVars, oldVars>>

\* camera.project_camera_space_to_screen(p_cam, w, h), or the _direct function
\* of engine_lib (near_tolerance 1e-6)
project ==
    /\ kernel_call.op = "project"
    /\ ~kernel_call.returned
    /\ kernel_call' =
           [kernel_call EXCEPT
               !.returned = TRUE,
               !.projected = ProjectCameraSpace(kernel_call.znear, FineZfar,
                                                kernel_call.near_tolerance, FINE_MIN_DEPTH,
                                                kernel_call.p_cam,
                                                2 * ScreenHalf, 2 * ScreenHalf)]
    /\ UNCHANGED <<polygon, cameraVars, renderVars, oldVars>>

\* camera-space polygons for clip_polygon_near_plane_3d: behind the near
\* plane, in front of it, across it, touching it, a single point, and a quad
\* that is not planar and crosses the plane four times
NearClipPolygons ==
    {<<>>,
     <<Vec3(-10000, -10000, -20000), Vec3(10000, -10000, -20000),
       Vec3(10000, 10000, -20000), Vec3(-10000, 10000, -20000)>>,
     <<Vec3(-10000, -10000, 5000), Vec3(10000, -10000, 5000),
       Vec3(10000, 10000, 5000), Vec3(-10000, 10000, 5000)>>,
     <<Vec3(-10000, -10000, -20000), Vec3(10000, -10000, -20000),
       Vec3(10000, -10000, 5000), Vec3(-10000, -10000, 5000)>>,
     <<Vec3(-10000, -10000, -20000), Vec3(10000, -10000, -20000),
       Vec3(10000, -10000, -10000), Vec3(0, -10000, 5000), Vec3(-10000, -10000, -10000)>>,
     <<Vec3(-10000, -10000, 5000), Vec3(0, -10000, -20000), Vec3(10000, -10000, 5000)>>,
     <<Vec3(-10000, -10000, -20000), Vec3(10000, -10000, -20000),
       Vec3(10000, -10000, -znear), Vec3(-10000, -10000, -znear)>>,
     <<Vec3(-10000, -10000, 0), Vec3(10000, -10000, 0),
       Vec3(10000, 10000, -znear), Vec3(-10000, 10000, -znear)>>,
     <<Vec3(0, 0, -20000)>>,
     <<Vec3(-10000, -10000, -20000), Vec3(10000, -10000, 5000),
       Vec3(10000, 10000, -20000), Vec3(-10000, 10000, 5000)>>}

NearClipCalls ==
    {[op |-> "clip_polygon_near_plane_3d", returned |-> FALSE,
      polygon_cam_space |-> polygon_cam_space, camera_znear |-> camera_znear,
      clipped_vertices_cam_space |-> <<>>, projected_points_2d |-> None] :
        polygon_cam_space \in NearClipPolygons, camera_znear \in {0, znear}}

\* steps 2 and 3 of the side loop of render_scene: the near-plane clip, the
\* continue for fewer than 3 vertices, and the projection of what is left
near_clip ==
    /\ kernel_call.op = "clip_polygon_near_plane_3d"
    /\ ~kernel_call.returned
    /\ \E clipped_vertices_cam_space \in
              {clip_polygon_near_plane_3d(kernel_call.polygon_cam_space,
                                          kernel_call.camera_znear)} :
          kernel_call' =
              [kernel_call EXCEPT
                  !.returned = TRUE,
                  !.clipped_vertices_cam_space = clipped_vertices_cam_space,
                  !.projected_points_2d =
                      IF Len(clipped_vertices_cam_space) < 3 THEN None
                      ELSE Some(ProjectAllWith(kernel_call.camera_znear,
                                               clipped_vertices_cam_space,
                                               screen_width, screen_height))]
    /\ UNCHANGED <<polygon, cameraVars, renderVars, oldVars>>

\* portal ids: the six of the cuboid and one that no side carries
AlignPortalIds == PORTAL_ID_FRONT..(PORTAL_ID_BOTTOM + 1)

\* camera poses to take through a portal
AlignPoses ==
    {Mat4Mul(Mat4FromTranslation(position), Mat4FromRot(rotation)) :
        position \in {Vec3(0, 0, 0), Vec3(2000, -3000, 15002)},
        rotation \in {RotY(0), RotY(1)}}

AlignCalls ==
    {[op |-> "get_portal_alignment_transform", returned |-> FALSE,
      source_portal_id |-> source_portal_id, target_portal_id |-> target_portal_id,
      pose |-> pose, forward |-> Mat4Identity, backward |-> Mat4Identity,
      pose_in_target |-> pose, pose_back |-> pose] :
        source_portal_id \in AlignPortalIds, target_portal_id \in AlignPortalIds,
        pose \in AlignPoses}

\* a pose taken through the portal pair as the Traverse arm of
\* update_camera_in_scene does (alignment.inverse() * pose, before the push),
\* and taken back through the reverse pair
align ==
    /\ kernel_call.op = "get_portal_alignment_transform"
    /\ ~kernel_call.returned
    /\ LET forward == get_portal_alignment_transform(kernel_call.source_portal_id,
                                                     kernel_call.target_portal_id)
           backward == get_portal_alignment_transform(kernel_call.target_portal_id,
                                                      kernel_call.source_portal_id)
           pose_in_target == Mat4Mul(Mat4Inverse(forward), kernel_call.pose)
       IN  kernel_call' =
               [kernel_call EXCEPT
                   !.returned = TRUE,
                   !.forward = forward,
                   !.backward = backward,
                   !.pose_in_target = pose_in_target,
                   !.pose_back = Mat4Mul(Mat4Inverse(backward), pose_in_target)]
    /\ UNCHANGED <<polygon, cameraVars, renderVars, oldVars>>

\* one call into the kernel, its inputs drawn from the sets above
KernelInit ==
    /\ blueprints = MvpScene.blueprints
    /\ instances = MvpScene.instances
    /\ active_camera_instance_id = MvpScene.active_camera_instance_id
    /\ active_camera_local_transform = MvpScene.active_camera_local_transform
    /\ last_call = NoCall
    /\ panicked = FALSE
    /\ render_phase = "off"
    /\ traversal_queue = <<>>
    /\ render_current = None
    /\ side_index = 0
    /\ frame_vertices = <<>>
    /\ frame_indices = <<>>
    /\ hulls = <<>>
    /\ camera = Camera(Vec3(0, 0, 0), 0, 0)
    /\ processed_hulls_this_frame = {}
    /\ polygon = ConvexPolygon_new
    /\ kernel_call \in IntersectCalls \cup ClipPassCalls \cup ProjectCalls \cup EmitCalls
                         \cup NearClipCalls \cup AlignCalls

KernelNext == intersect_into_new \/ clip_pass \/ project \/ emit \/ near_clip \/ align

KernelSpec == KernelInit /\ [][KernelNext]_vars

\* ------------------------------------------------ the portal handler, called alone
\* the depths, visible polygons and waiting queues process_render is called with
HandlerDepths == {0, 1, MAX_PORTAL_RECURSION_DEPTH - 1, MAX_PORTAL_RECURSION_DEPTH}

HandlerVisiblePolygons == {NoPoints, TwoPoints, SmallTriangle, Square04}

HandlerQueues == {<<>>, <<TraversalState(ROOM1_INSTANCE_ID, Mat4Identity, Viewport, 1)>>}

\* StandardPortalHandler.process_render(&mut ctx), ctx built for side side_index
\* of the instance of the state in hand
portal_process_render ==
    /\ render_phase = "handler called"
    /\ LET state == Unwrap(render_current)
           current_instance == instances[state.current_instance_id]
           blueprint_side == SideAt(blueprints[current_instance.blueprint_id], side_index)
       IN  \E outcome \in
                   {StandardPortalHandler_process_render(HandlerContext(
                        frame_vertices, frame_indices, blueprints, instances,
                        current_instance, blueprint_side,
                        EffectiveConfig(current_instance, blueprint_side, side_index),
                        state.accumulated_transform,
                        get_view_matrix_from_host_hull(active_camera_local_transform),
                        ConvexPolygon_vertices(polygon), traversal_queue,
                        state.recursion_depth))} :
              /\ frame_vertices' = outcome.frame_vertices
              /\ frame_indices' = outcome.frame_indices
              /\ traversal_queue' = outcome.traversal_queue
              /\ render_phase' = IF outcome.panicked THEN "handler panicked"
                                 ELSE "handler returned"
    /\ UNCHANGED <<kernelVars, cameraVars, oldVars, render_current, side_index>>

HandlerInit ==
    /\ \E scene \in RenderScenes :
          /\ blueprints = scene.blueprints
          /\ instances = scene.instances
          /\ active_camera_instance_id = scene.active_camera_instance_id
          /\ active_camera_local_transform = scene.active_camera_local_transform
    /\ last_call = NoCall
    /\ panicked = FALSE
    /\ render_phase = "handler called"
    /\ traversal_queue \in HandlerQueues
    /\ \E current_instance_id \in DOMAIN instances, recursion_depth \in HandlerDepths :
          render_current = Some(TraversalState(current_instance_id, Mat4Identity, Viewport,
                                               recursion_depth))
    /\ side_index \in 0..5
    /\ frame_vertices = <<>>
    /\ frame_indices = <<>>
    /\ hulls = <<>>
    /\ camera = Camera(Vec3(0, 0, 0), 0, 0)
    /\ processed_hulls_this_frame = {}
    /\ polygon \in {FromPoints(points) : points \in HandlerVisiblePolygons}
    /\ kernel_call = NoKernelCall

HandlerNext == portal_process_render

HandlerSpec == HandlerInit /\ [][HandlerNext]_vars

\* an intersection call has returned
Intersected == kernel_call.op = "find_intersection_into" /\ kernel_call.returned

\* a clip pass has returned
Clipped == kernel_call.op = "clip_polygon_by_edge" /\ kernel_call.returned

\* a projection has returned
Projected == kernel_call.op = "project" /\ kernel_call.returned

\* an emission has returned or panicked
EmissionDone == kernel_call.op = "emit" /\ kernel_call.returned

\* ------------------------------------------------ one ConvexPolygon, operated on
\* the largest count handed to set_count
MaxCount == 18
\* the point lists handed to from_points and copy_vertices_from_slice
PolygonSlices == {NoPoints, TwoPoints, Square04, Hexadecagon, Heptadecagon}
\* the polygons handed to find_intersection_into
PolygonOperands == {TwoPoints, Square04, Square26, Hexadecagon, Slab}

\* polygon = ConvexPolygon::new()
polygon_new ==
    /\ polygon' = ConvexPolygon_new
    /\ kernel_call' = [op |-> "new", requested |-> 0]
    /\ UNCHANGED <<cameraVars, renderVars, oldVars>>

\* polygon = ConvexPolygon::from_points(points)
polygon_from_points(points) ==
    /\ polygon' = FromPoints(points)
    /\ kernel_call' = [op |-> "from_points", requested |-> Len(points)]
    /\ UNCHANGED <<cameraVars, renderVars, oldVars>>

\* polygon.set_count(count)
polygon_set_count(count) ==
    /\ polygon' = ConvexPolygon_set_count(polygon, count)
    /\ kernel_call' = [op |-> "set_count", requested |-> count]
    /\ UNCHANGED <<cameraVars, renderVars, oldVars>>

\* polygon.copy_vertices_from_slice(slice)
polygon_copy_vertices_from_slice(slice) ==
    /\ polygon' = ConvexPolygon_copy_vertices_from_slice(polygon, slice)
    /\ kernel_call' = [op |-> "copy_vertices_from_slice", requested |-> Len(slice)]
    /\ UNCHANGED <<cameraVars, renderVars, oldVars>>

\* find_intersection_into(&poly1, &poly2, &mut polygon)
polygon_find_intersection_into(points1, points2) ==
    /\ polygon' = FindIntersectionInto(FromPoints(points1), FromPoints(points2), polygon)
    /\ kernel_call' = [op |-> "find_intersection_into", requested |-> Len(points1),
                       poly1 |-> FromPoints(points1), poly2 |-> FromPoints(points2)]
    /\ UNCHANGED <<cameraVars, renderVars, oldVars>>

PolygonInit ==
    /\ blueprints = MvpScene.blueprints
    /\ instances = MvpScene.instances
    /\ active_camera_instance_id = MvpScene.active_camera_instance_id
    /\ active_camera_local_transform = MvpScene.active_camera_local_transform
    /\ last_call = NoCall
    /\ panicked = FALSE
    /\ render_phase = "off"
    /\ traversal_queue = <<>>
    /\ render_current = None
    /\ side_index = 0
    /\ frame_vertices = <<>>
    /\ frame_indices = <<>>
    /\ hulls = <<>>
    /\ camera = Camera(Vec3(0, 0, 0), 0, 0)
    /\ processed_hulls_this_frame = {}
    /\ polygon = ConvexPolygon_new
    /\ kernel_call = NoKernelCall

PolygonFromPoints == \E points \in PolygonSlices : polygon_from_points(points)

PolygonSetCount == \E count \in 0..MaxCount : polygon_set_count(count)

PolygonCopy == \E slice \in PolygonSlices : polygon_copy_vertices_from_slice(slice)

PolygonIntersect == \E points1 \in PolygonOperands, points2 \in PolygonOperands :
                        polygon_find_intersection_into(points1, points2)

PolygonNext ==
    polygon_new \/ PolygonFromPoints \/ PolygonSetCount \/ PolygonCopy \/ PolygonIntersect

PolygonSpec == PolygonInit /\ [][PolygonNext]_vars

\* the cross product of the edge and the vector from its start to the point
EdgeCross(point, edge_start, edge_end) ==
    (edge_end[1] - edge_start[1]) * (point[2] - edge_start[2])
        - (edge_end[2] - edge_start[2]) * (point[1] - edge_start[1])

\* no vertex lies on the outer side of an edge, and the polygon has an inside
IsConvexCCW(self) ==
    /\ self.count >= 3
    /\ ShoelaceFrom(self, 0) > 0
    /\ \A i \in 1..self.count, k \in 1..self.count :
           EdgeCross(self.vertices[k], self.vertices[i],
                     self.vertices[(i % self.count) + 1]) >= 0

\* the point lies on the inner side of every edge and on none of them
StrictlyInside(point, self) ==
    \A i \in 1..self.count :
        EdgeCross(point, self.vertices[i], self.vertices[(i % self.count) + 1]) > 0

\* ------------------------------------------- claims: one frame's traversal
\* C1: every TraversalState the portal handler enqueues has a recursion depth
\* of at most MAX_PORTAL_RECURSION_DEPTH: a state of depth d + 1 is appended
\* only while a state of depth d < MAX_PORTAL_RECURSION_DEPTH is processed
C1_EnqueuedDepthBounded ==
    [][(render_current # None /\ Len(traversal_queue') > Len(traversal_queue))
         => LET processed_state == Unwrap(render_current)
                enqueued == traversal_queue'[Len(traversal_queue')]
            IN  /\ Len(traversal_queue') = Len(traversal_queue) + 1
                /\ processed_state.recursion_depth < MAX_PORTAL_RECURSION_DEPTH
                /\ enqueued.recursion_depth = processed_state.recursion_depth + 1
                /\ enqueued.recursion_depth <= MAX_PORTAL_RECURSION_DEPTH]_vars

\* a state of the deepest level waits in the queue, put there through a cycle
\* of portals
C1_Witness ==
    /\ render_phase = "running"
    /\ render_current # None
    /\ Unwrap(render_current).recursion_depth = MAX_PORTAL_RECURSION_DEPTH - 1
    /\ traversal_queue # <<>>
    /\ traversal_queue[Len(traversal_queue)].recursion_depth = MAX_PORTAL_RECURSION_DEPTH

\* C2: one frame's traversal terminates with an empty work queue: the loop
\* eventually pops the last state and returns
C2_FrameTerminates ==
    <>(render_phase = "returned" /\ traversal_queue = <<>>)

\* ------------------------------------------- claims: boundary resolution
CallMade == last_call.result.kind # "NoCall"

\* the instance and blueprint the last call checked the proposed position against
CallInstance == instances[last_call.instance_id]

CallBlueprint == blueprints[CallInstance.blueprint_id]

SideIndices(blueprint) == 0..(Len(blueprint.sides) - 1)

HasPlane(blueprint, side_idx) == SideAt(blueprint, side_idx).vertex_indices # <<>>

\* the sides whose plane lies more than COLLISION_EPSILON beyond p
ViolatedSides(blueprint, p) ==
    {i \in SideIndices(blueprint) :
        /\ HasPlane(blueprint, i)
        /\ SignedDistance(blueprint, SideAt(blueprint, i), p) < -COLLISION_EPSILON}

MinOf(S) == CHOOSE i \in S : \A j \in S : i <= j

CallViolated == ViolatedSides(CallBlueprint, last_call.potential_new_local_pos)

\* the configuration in force on side i of the instance the last call checked
CallConfig(i) == EffectiveConfig(CallInstance, SideAt(CallBlueprint, i), i)

ProposedPose ==
    Mat4Mul(Mat4FromTranslation(last_call.potential_new_local_pos), last_call.new_rotation_matrix)

\* every quotient of the push-out was exact: the stored position is the exact one
PushOutExact ==
    (last_call.result.kind = "Collision") =>
        LET side == SideAt(CallBlueprint, last_call.result.collided_side_index)
            n == side.local_normal
            a == PUSH_OUT_DISTANCE
                 - SignedDistance(CallBlueprint, side, last_call.potential_new_local_pos)
        IN  LengthSquared(n) > NORMAL_LENGTH_SQ_GUARD =>
                \A c \in 1..3 : (a * (n[c] \div GCD(Abs(n[c]), LengthSquared(n))))
                                  % (LengthSquared(n) \div GCD(Abs(n[c]), LengthSquared(n))) = 0

\* C3: after a Traverse the stored position does not violate the plane of the
\* portal side it entered through in the target hull (the side of the target
\* blueprint carrying the target portal id), whatever the camera orientation:
\* proposing the stored position again would not cross that portal back.
C3_LandsInsideTarget ==
    (/\ last_call.result.kind = "Traverse"
     /\ active_camera_instance_id \in DOMAIN instances) =>
        LET target_blueprint == blueprints[instances[active_camera_instance_id].blueprint_id] IN
        \A i \in SideIndices(target_blueprint) :
            (/\ HasPlane(target_blueprint, i)
             /\ SideAt(target_blueprint, i).local_portal_id = Some(last_call.result.target_portal_id))
            => SignedDistance(target_blueprint, SideAt(target_blueprint, i),
                              active_camera_local_transform.trans) >= -COLLISION_EPSILON

\* C4: after a Collision against a side with a non-zero normal, the signed
\* distance from the stored position to that side's plane is strictly positive
\* and at most 1e-2, whatever the penetration depth and the normal's length.
C4_PushbackInRange ==
    (/\ last_call.result.kind = "Collision"
     /\ SideAt(CallBlueprint, last_call.result.collided_side_index).local_normal # <<0, 0, 0>>) =>
        LET d == SignedDistance(CallBlueprint,
                                SideAt(CallBlueprint, last_call.result.collided_side_index),
                                active_camera_local_transform.trans)
        IN  d > 0 /\ d <= PUSHBACK_BOUND

\* C5 as stated: whenever the first violated side's effective configuration is
\* a standard portal, the result is Traverse with that side's index and the
\* configuration's target instance and target portal.
C5_PortalConfigTraverses ==
    (CallMade /\ CallViolated # {} /\ CallConfig(MinOf(CallViolated)).type = "StandardPortal") =>
        last_call.result = Traverse(MinOf(CallViolated),
                                    CallConfig(MinOf(CallViolated)).target_instance_id,
                                    CallConfig(MinOf(CallViolated)).target_portal_id)

\* C5 amended: when the first violated side's effective configuration is a
\* standard portal, the result is Traverse with that side's index and the
\* configured targets if the blueprint side has a local portal id, and a
\* Collision with that side otherwise.
C5_PortalConfigWithPortalId ==
    (CallMade /\ CallViolated # {} /\ CallConfig(MinOf(CallViolated)).type = "StandardPortal") =>
        LET i == MinOf(CallViolated) IN
        IF IsSome(SideAt(CallBlueprint, i).local_portal_id)
        THEN last_call.result = Traverse(i, CallConfig(i).target_instance_id,
                                         CallConfig(i).target_portal_id)
        ELSE last_call.result = Collision(i, last_call.potential_new_local_pos)

\* a Traverse was returned for a portal configured by the blueprint default
C5_Witness ==
    /\ last_call.result.kind = "Traverse"
    /\ last_call.result.crossed_side_index \notin DOMAIN CallInstance.instance_side_handler_configs

\* C6: after a Traverse the active instance id is the target instance id
\* configured on the crossed side, and the same call stored the re-expressed
\* pose (one write of each, the pose keeping the proposed orientation).
C6_TraverseSwitchesInstance ==
    (last_call.result.kind = "Traverse") =>
        /\ active_camera_instance_id =
               CallConfig(last_call.result.crossed_side_index).target_instance_id
        /\ last_call.instance_id_writes = 1
        /\ last_call.pose_writes = 1
        /\ active_camera_local_transform.rot = last_call.new_rotation_matrix.rot

\* a Traverse moved the camera into another instance
C6_Witness ==
    /\ last_call.result.kind = "Traverse"
    /\ active_camera_instance_id # last_call.instance_id

\* the alignment transform between the crossed side's portal id and the target portal id
CallAlignment ==
    get_portal_alignment_transform(
        Unwrap(SideAt(CallBlueprint, last_call.result.crossed_side_index).local_portal_id),
        last_call.result.target_portal_id)

\* C7 as stated: after a Traverse the stored translation and the proposed
\* position differ by exactly the alignment transform's translation (in one
\* direction or the other) and by nothing else.
C7_DiffersByAlignmentOnly ==
    (last_call.result.kind = "Traverse") =>
        \/ VSub(last_call.potential_new_local_pos, active_camera_local_transform.trans)
               = CallAlignment.trans
        \/ VSub(active_camera_local_transform.trans, last_call.potential_new_local_pos)
               = CallAlignment.trans

\* C7 amended: after a Traverse the stored translation is the proposed position
\* minus the alignment transform's translation, plus a push of
\* TRAVERSAL_PUSH_DISTANCE along the camera's own -Z axis.
C7_DiffersByAlignmentAndPush ==
    (last_call.result.kind = "Traverse") =>
        active_camera_local_transform.trans =
            VAdd(VSub(last_call.potential_new_local_pos, CallAlignment.trans),
                 MatVec(last_call.new_rotation_matrix.rot, Vec3(0, 0, -TRAVERSAL_PUSH_DISTANCE)))

\* a Traverse went through a portal pair with a non-zero alignment translation
C7_Witness ==
    /\ last_call.result.kind = "Traverse"
    /\ CallAlignment.trans # <<0, 0, 0>>

\* C8: a proposed position that violates no side plane is accepted as it is:
\* the result is Inside, the stored pose is the proposed position and rotation,
\* and the active instance id is unchanged.
C8_InsideAccepted ==
    (CallMade /\ CallViolated = {}) =>
        /\ last_call.result = Inside
        /\ active_camera_local_transform = ProposedPose
        /\ active_camera_instance_id = last_call.instance_id

\* an accepted position that lies beyond a side plane, within the epsilon band
C8_Witness ==
    /\ last_call.result.kind = "Inside"
    /\ \E i \in SideIndices(CallBlueprint) :
          /\ HasPlane(CallBlueprint, i)
          /\ SignedDistance(CallBlueprint, SideAt(CallBlueprint, i),
                            last_call.potential_new_local_pos) < 0

\* the result the loop body yields for side i alone
ResultOfSide(i) ==
    IF CallConfig(i).type = "StandardPortal" /\ IsSome(SideAt(CallBlueprint, i).local_portal_id)
    THEN Traverse(i, CallConfig(i).target_instance_id, CallConfig(i).target_portal_id)
    ELSE Collision(i, last_call.potential_new_local_pos)

\* C9: when several side planes are violated at once, the result is the one
\* of the violated side with the lowest index; later violated sides do not
\* change it, whether they are walls or portals.
C9_FirstViolatedSideDecides ==
    (CallMade /\ CallViolated # {}) => last_call.result = ResultOfSide(MinOf(CallViolated))

\* a corner where the first violated side is a wall and a later one a portal
C9_Witness ==
    /\ last_call.result.kind = "Collision"
    /\ \E j \in CallViolated :
          /\ j > last_call.result.collided_side_index
          /\ ResultOfSide(j).kind = "Traverse"

\* a corner where the first violated side is a portal and a later one a wall
C9_WitnessPortalFirst ==
    /\ last_call.result.kind = "Traverse"
    /\ \E j \in CallViolated :
          /\ j > last_call.result.crossed_side_index
          /\ ResultOfSide(j).kind = "Collision"

\* C10: a call changes nothing of the scene but the camera's instance id and
\* pose: blueprints and instances stay as they are, a completed call writes
\* the pose exactly once, and the instance id changes only when the call's
\* result is Traverse.
C10_OnlyCameraPairMutated ==
    [][/\ blueprints' = blueprints
       /\ instances' = instances
       /\ (last_call' # last_call => last_call'.pose_writes = 1)
       /\ (active_camera_instance_id' # active_camera_instance_id
              => last_call'.result.kind = "Traverse")
       /\ (last_call'.result.kind \in {"Inside", "Collision"}
              => /\ last_call'.instance_id_writes = 0
                 /\ active_camera_instance_id' = last_call'.instance_id)]_vars

\* a Collision was resolved and left the camera in the instance it was in
C10_Witness ==
    /\ last_call.result.kind = "Collision"
    /\ active_camera_instance_id = last_call.instance_id
    /\ active_camera_local_transform.trans # last_call.potential_new_local_pos

\* ------------------------------------------- claims: portals that lead nowhere
\* side k of the instance being processed is a standard portal whose target
\* instance the scene does not hold
DanglingPortalAt(k) ==
    /\ render_phase = "running"
    /\ render_current # None
    /\ LET current_instance == instances[Unwrap(render_current).current_instance_id]
           blueprint == blueprints[current_instance.blueprint_id]
           side_config == EffectiveConfig(current_instance, SideAt(blueprint, k), k)
       IN  /\ k < Len(blueprint.sides)
           /\ side_config.type = "StandardPortal"
           /\ side_config.target_instance_id \notin DOMAIN instances

\* what is left of side k on screen has an area
SideVisibleAt(k) ==
    LET state == Unwrap(render_current)
        blueprint == blueprints[instances[state.current_instance_id].blueprint_id]
    IN  Len(VisibleScreenPolygon(state, blueprint, SideAt(blueprint, k),
                                 get_view_matrix_from_host_hull(active_camera_local_transform)))
            >= 3

\* C18: a portal whose target instance does not exist adds nothing to the
\* frame and nothing to the queue and raises no failure, and the traversal
\* goes on; no state of an instance the scene does not hold is ever queued.
C18_DanglingPortalContributesNothing ==
    [][/\ DanglingPortalAt(side_index)
          => /\ frame_vertices' = frame_vertices
             /\ frame_indices' = frame_indices
             /\ traversal_queue' = traversal_queue
             /\ render_phase' = "running"
       /\ \A i \in 1..Len(traversal_queue') :
              traversal_queue'[i].current_instance_id \in DOMAIN instances]_vars

\* a visible portal to an instance the scene does not hold has just been
\* handled, above the recursion limit's reach, and the frame goes on
C18_Witness ==
    /\ side_index > 0
    /\ DanglingPortalAt(side_index - 1)
    /\ SideVisibleAt(side_index - 1)
    /\ Unwrap(render_current).recursion_depth < MAX_PORTAL_RECURSION_DEPTH
    /\ render_phase = "running"

\* ------------------------------------------- claims: the frame's buffers
\* C19: after an emission that follows any number of others, the index list
\* has a length that is a multiple of 3, every index is smaller than the
\* length of the vertex list, and the indices of the emission are start,
\* start + i, start + i + 1 within the vertices of that emission.
C19_IndicesWithinTheirPolygon ==
    EmissionDone
        => LET indices_before == IndicesAfterQuads(kernel_call.quads_before)
               first_vertex == 4 * kernel_call.quads_before
               vertex_count == first_vertex + Len(kernel_call.vertices_pushed)
           IN  /\ ~kernel_call.panicked
               /\ (Len(indices_before) + Len(kernel_call.indices_pushed)) % 3 = 0
               /\ \A j \in 1..Len(indices_before) : indices_before[j] < vertex_count
               /\ \A j \in 1..Len(kernel_call.indices_pushed) :
                      /\ kernel_call.indices_pushed[j] < vertex_count
                      /\ kernel_call.indices_pushed[j]
                             = first_vertex
                                   + (IF (j - 1) % 3 = 0 THEN 0
                                      ELSE ((j - 1) \div 3) + ((j - 1) % 3))

\* ------------------------------------------- claims: the order of the traversal
\* the recursion depths of the states waiting in the queue, front first
QueuedDepths == [i \in 1..Len(traversal_queue) |-> traversal_queue[i].recursion_depth]

\* C24: within one frame the TraversalStates are processed in the order in
\* which they were enqueued: the state taken is the one at the front, the
\* queue holds its states by non-decreasing depth, none of them shallower
\* than the state in hand, so that no state of depth d + 1 is processed
\* while a state of depth d waits, and the depths of the states processed one
\* after the other do not decrease.
C24_ProcessedInEnqueueOrder ==
    /\ [](render_phase = "running"
             => /\ \A i \in 1..Len(traversal_queue), j \in 1..Len(traversal_queue) :
                       i < j => QueuedDepths[i] <= QueuedDepths[j]
                /\ render_current # None
                       => \A i \in 1..Len(traversal_queue) :
                              QueuedDepths[i] >= Unwrap(render_current).recursion_depth)
    /\ [][(render_phase = "running" /\ render_current' # render_current /\ render_current' # None)
             => /\ traversal_queue # <<>>
                /\ Unwrap(render_current') = Head(traversal_queue)
                /\ traversal_queue' = Tail(traversal_queue)]_vars

\* a state of depth 1 is in hand while another state of depth 1 and a state
\* of depth 2 wait behind it
C24_Witness ==
    /\ render_phase = "running"
    /\ render_current # None
    /\ Unwrap(render_current).recursion_depth = 1
    /\ Len(traversal_queue) >= 2
    /\ QueuedDepths[1] = 1
    /\ QueuedDepths[Len(traversal_queue)] = 2

\* ------------------------------------------- claims: the portal handler
HandlerDone == render_phase \in {"handler returned", "handler panicked"}

\* C25: no TraversalState is enqueued with a visibility aperture of fewer
\* than 3 vertices: every state in the queue after the portal handler has run
\* has an aperture of at least 3 vertices.
C25_NoDegenerateAperture ==
    HandlerDone
        => \A i \in 1..Len(traversal_queue) :
               Len(traversal_queue[i].screen_space_clip_polygon) >= 3

\* ------------------------------------------- claims: the near plane
NearClipped == kernel_call.op = "clip_polygon_near_plane_3d" /\ kernel_call.returned

\* the edges of the polygon that leave the half-space behind the near plane
LeavingEdges(polygon_cam_space, camera_znear) ==
    {k \in 1..Len(polygon_cam_space) :
        /\ polygon_cam_space[IF k = 1 THEN Len(polygon_cam_space) ELSE k - 1][3] < -camera_znear
        /\ ~(polygon_cam_space[k][3] < -camera_znear)}

C27_CameraInstanceExists ==
    /\ active_camera_instance_id \in DOMAIN instances
    /\ instances[active_camera_instance_id].blueprint_id \in DOMAIN blueprints

\* C28: after update_camera_in_scene has resolved a Collision, the stored
\* camera position violates no side of the hull the camera is in: its signed
\* distance to every side plane is at least -COLLISION_EPSILON, also when the
\* proposed position lay beyond two or more planes at once.
C28_NoSideViolatedAfterCollision ==
    last_call.result.kind = "Collision"
        => ViolatedSides(CallBlueprint, active_camera_local_transform.trans) = {}

\* C29: StandardPortalHandler::process_render never fails: for every side
\* configuration, scene and recursion depth it returns, having appended
\* nothing or exactly one TraversalState to the queue, also for a
\* standard-portal configuration on a side without a local portal id, and it
\* leaves the frame's vertices and indices as they were.
C29_PortalHandlerNeverFails ==
    /\ render_phase # "handler panicked"
    /\ render_phase = "handler returned"
           => /\ \/ traversal_queue \in HandlerQueues
                 \/ /\ Len(traversal_queue) >= 1
                    /\ SubSeq(traversal_queue, 1, Len(traversal_queue) - 1) \in HandlerQueues
              /\ frame_vertices = <<>>
              /\ frame_indices = <<>>

\* ------------------------------------------- claims: portal alignment
Aligned == kernel_call.op = "get_portal_alignment_transform" /\ kernel_call.returned

\* the portal pairs that are joined face to face
FacingPairs ==
    {<<PORTAL_ID_FRONT, PORTAL_ID_BACK>>, <<PORTAL_ID_BACK, PORTAL_ID_FRONT>>,
     <<PORTAL_ID_RIGHT, PORTAL_ID_LEFT>>, <<PORTAL_ID_LEFT, PORTAL_ID_RIGHT>>,
     <<PORTAL_ID_TOP, PORTAL_ID_BOTTOM>>, <<PORTAL_ID_BOTTOM, PORTAL_ID_TOP>>}

\* C30: for every pair of portal ids (a, b) the alignment transform of (a, b)
\* composed with that of (b, a) is the identity, in both orders, so that a
\* pose taken through the portal and back is the pose it was; a pair that is
\* not in the table has the identity in both directions.
C30_AlignmentsMutuallyInverse ==
    Aligned
        => /\ Mat4Mul(kernel_call.forward, kernel_call.backward) = Mat4Identity
           /\ Mat4Mul(kernel_call.backward, kernel_call.forward) = Mat4Identity
           /\ kernel_call.pose_back = kernel_call.pose
           /\ <<kernel_call.source_portal_id, kernel_call.target_portal_id>> \notin FacingPairs
                  => kernel_call.forward = Mat4Identity /\ kernel_call.backward = Mat4Identity

\* a turned camera went through FRONT -> BACK, where its position changed by
\* the length of a room, and came back
C30_Witness ==
    /\ Aligned
    /\ kernel_call.source_portal_id = PORTAL_ID_FRONT
    /\ kernel_call.target_portal_id = PORTAL_ID_BACK
    /\ kernel_call.pose.rot # IdentityRot
    /\ kernel_call.pose_in_target.trans[3] = kernel_call.pose.trans[3] - 2 * room_half_size
    /\ kernel_call.pose_back = kernel_call.pose

\* ------------------------------------------- claims: the geometry kernel
VertexSet(self) == {self.vertices[i] : i \in 1..self.count}

\* what clip_polygon_by_edge would emit into an output buffer without an end
Emitted(subject_vertices, clip_edge_start, clip_edge_end) ==
    IF subject_vertices = <<>> THEN <<>>
    ELSE EmittedFrom(subject_vertices, 1, subject_vertices[Len(subject_vertices)], <<>>,
                     clip_edge_start, clip_edge_end)

\* the crossing point of a subject edge that crosses the clip edge's line is a
\* whole pixel, so that line_intersection rounds nothing
CrossingOnGrid(p1, p2, clip_edge_p1, clip_edge_p2) ==
    LET dx_line == p2[1] - p1[1]
        dy_line == p2[2] - p1[2]
        dx_clip == clip_edge_p2[1] - clip_edge_p1[1]
        dy_clip == clip_edge_p2[2] - clip_edge_p1[2]
        denominator == dy_clip * dx_line - dx_clip * dy_line
        t_numerator == dx_clip * (p1[2] - clip_edge_p1[2]) - dy_clip * (p1[1] - clip_edge_p1[1])
    IN  is_inside(p1, clip_edge_p1, clip_edge_p2) # is_inside(p2, clip_edge_p1, clip_edge_p2)
            => /\ denominator # 0
               /\ (dx_line * t_numerator) % Abs(denominator) = 0
               /\ (dy_line * t_numerator) % Abs(denominator) = 0

\* every crossing point of one clip pass is a whole pixel
PassOnGrid(subject, clip_edge_start, clip_edge_end) ==
    \A k \in 1..Len(subject) :
        CrossingOnGrid(subject[IF k = 1 THEN Len(subject) ELSE k - 1], subject[k],
                       clip_edge_start, clip_edge_end)

RECURSIVE PassesOnGridFrom(_, _, _)
\* every crossing point of the passes of find_intersection_into from edge i
\* of poly2 on is a whole pixel
PassesOnGridFrom(subject, poly2, i) ==
    IF i >= Len(poly2) \/ subject = <<>> THEN TRUE
    ELSE LET clip_edge_start == poly2[i + 1]
             clip_edge_end == poly2[((i + 1) % Len(poly2)) + 1]
         IN  IF \A k \in 1..Len(subject) : is_inside(subject[k], clip_edge_start, clip_edge_end)
             THEN PassesOnGridFrom(subject, poly2, i + 1)
             ELSE /\ PassOnGrid(subject, clip_edge_start, clip_edge_end)
                  /\ With(clip_polygon_by_edge(subject, clip_edge_start, clip_edge_end),
                          LAMBDA clipped : PassesOnGridFrom(clipped, poly2, i + 1))

\* the call computed no crossing point off the pixel grid
CallOnGrid ==
    PassesOnGridFrom(ConvexPolygon_vertices(kernel_call.poly1),
                     ConvexPolygon_vertices(kernel_call.poly2), 0)

\* C21: what find_intersection_into leaves in a result polygon that has been
\* used before (its count and its first count vertices) is what it leaves in
\* a new one: the result depends on poly1 and poly2 only.
C21_ResultIndependentOfBuffer ==
    (kernel_call.op = "find_intersection_into" /\ "requested" \in DOMAIN kernel_call)
        => LET fresh == FindIntersectionInto(kernel_call.poly1, kernel_call.poly2,
                                             ConvexPolygon_new)
           IN  /\ polygon.count = fresh.count
               /\ ConvexPolygon_vertices(polygon) = ConvexPolygon_vertices(fresh)

\* the result was written over a longer polygon, whose vertices are still in
\* the array beyond the count
C21_Witness ==
    /\ kernel_call.op = "find_intersection_into"
    /\ "requested" \in DOMAIN kernel_call
    /\ polygon.count = 4
    /\ polygon.vertices[MAX_VERTICES] = Hexadecagon[MAX_VERTICES]
    /\ polygon.vertices
           # FindIntersectionInto(kernel_call.poly1, kernel_call.poly2, ConvexPolygon_new).vertices

\* the point is the crossing point of the subject edge and the clip edge's line
IsCrossingPoint(point, prev_vertex, current_vertex, clip_edge_start, clip_edge_end) ==
    /\ <<point>> = line_intersection(prev_vertex, current_vertex, clip_edge_start, clip_edge_end)
    /\ CrossingOnGrid(prev_vertex, current_vertex, clip_edge_start, clip_edge_end)
           => /\ EdgeCross(point, clip_edge_start, clip_edge_end) = 0
              /\ EdgeCross(point, prev_vertex, current_vertex) = 0

\* the vertices the four cases give for one subject edge, as conditions on the
\* output from slot pos on: how many there are, and what they are
EdgeCaseCount(prev_vertex, current_vertex, clip_edge_start, clip_edge_end) ==
    LET prev_in == EdgeCross(prev_vertex, clip_edge_start, clip_edge_end) >= 0
        current_in == EdgeCross(current_vertex, clip_edge_start, clip_edge_end) >= 0
    IN  IF prev_in /\ current_in THEN 1
        ELSE IF prev_in THEN 1
        ELSE IF current_in THEN 2
        ELSE 0

EdgeCaseHolds(output, pos, prev_vertex, current_vertex, clip_edge_start, clip_edge_end) ==
    LET prev_in == EdgeCross(prev_vertex, clip_edge_start, clip_edge_end) >= 0
        current_in == EdgeCross(current_vertex, clip_edge_start, clip_edge_end) >= 0
    IN  IF prev_in /\ current_in THEN output[pos] = current_vertex
        ELSE IF prev_in
             THEN IsCrossingPoint(output[pos], prev_vertex, current_vertex,
                                  clip_edge_start, clip_edge_end)
        ELSE IF current_in
             THEN /\ IsCrossingPoint(output[pos], prev_vertex, current_vertex,
                                     clip_edge_start, clip_edge_end)
                  /\ pos + 1 <= Len(output) => output[pos + 1] = current_vertex
        ELSE TRUE

RECURSIVE FollowsEdgeCasesFrom(_, _, _, _, _, _)
\* the output from slot pos on is what the subject edges from vertex k on give,
\* one after the other, up to the end of the output array
FollowsEdgeCasesFrom(output, pos, subject_vertices, k, clip_edge_start, clip_edge_end) ==
    IF k > Len(subject_vertices) THEN pos = Len(output) + 1
    ELSE LET prev_vertex == subject_vertices[IF k = 1 THEN Len(subject_vertices) ELSE k - 1]
             current_vertex == subject_vertices[k]
             emitted == EdgeCaseCount(prev_vertex, current_vertex,
                                      clip_edge_start, clip_edge_end)
         IN  IF emitted > 0 /\ pos > Len(output) THEN Len(output) = MAX_VERTICES
             ELSE /\ EdgeCaseHolds(output, pos, prev_vertex, current_vertex,
                                   clip_edge_start, clip_edge_end)
                  /\ IF pos + emitted > MAX_VERTICES + 1 THEN Len(output) = MAX_VERTICES
                     ELSE FollowsEdgeCasesFrom(output, pos + emitted, subject_vertices, k + 1,
                                               clip_edge_start, clip_edge_end)

\* the cases that occur among the subject edges of the call
EdgeCasesOfCall ==
    {<<EdgeCross(kernel_call.subject_vertices[IF k = 1 THEN Len(kernel_call.subject_vertices)
                                              ELSE k - 1],
                 kernel_call.clip_edge_start, kernel_call.clip_edge_end) >= 0,
       EdgeCross(kernel_call.subject_vertices[k],
                 kernel_call.clip_edge_start, kernel_call.clip_edge_end) >= 0>> :
        k \in 1..Len(kernel_call.subject_vertices)}

\* C22: for each subject edge prev -> current, in subject order,
\* clip_polygon_by_edge emits current when both ends are inside, the crossing
\* point when prev is inside and current outside, the crossing point and then
\* current when prev is outside and current inside, and nothing when both are
\* outside, where a point on the clip edge's line (cross product 0) is inside;
\* the output ends where the array is full.
C22_FourCasesPerEdge ==
    Clipped
        => FollowsEdgeCasesFrom(ConvexPolygon_vertices(polygon), 1, kernel_call.subject_vertices,
                                1, kernel_call.clip_edge_start, kernel_call.clip_edge_end)

\* a pass in which all four cases occurred, with a subject vertex on the clip
\* edge's line that was kept
C22_Witness ==
    /\ Clipped
    /\ EdgeCasesOfCall = BOOLEAN \X BOOLEAN
    /\ polygon.count < MAX_VERTICES
    /\ \E k \in 1..Len(kernel_call.subject_vertices) :
           /\ EdgeCross(kernel_call.subject_vertices[k],
                        kernel_call.clip_edge_start, kernel_call.clip_edge_end) = 0
           /\ kernel_call.subject_vertices[k] \in VertexSet(polygon)

RECURSIVE EveryPassFrom(_, _, _)
\* Sutherland-Hodgman without the shortcut: clip_polygon_by_edge runs for
\* every edge of poly2 from edge i on
EveryPassFrom(subject, poly2, i) ==
    IF i >= Len(poly2) THEN subject
    ELSE With(clip_polygon_by_edge(subject, poly2[i + 1], poly2[((i + 1) % Len(poly2)) + 1]),
              LAMBDA clipped : EveryPassFrom(clipped, poly2, i + 1))

\* the result polygon of the reference, with the same two early exits
ReferenceIntersection(poly1, poly2) ==
    IF poly1.count = 0 THEN ConvexPolygon_new
    ELSE IF poly2.count < 3 THEN FromPoints(ConvexPolygon_vertices(poly1))
    ELSE FromPoints(EveryPassFrom(ConvexPolygon_vertices(poly1), ConvexPolygon_vertices(poly2), 0))

\* C23: find_intersection_into, which skips the pass for a clip edge that has
\* every subject vertex inside, returns the polygon (count, vertices, order)
\* that Sutherland-Hodgman with a pass for every clip edge returns, and what
\* it reads at the end from its two buffers is that polygon: the output of
\* the last pass that ran, or the copy of the subject when none ran.
C23_SkippingPassesChangesNothing ==
    Intersected
        => /\ polygon = ReferenceIntersection(kernel_call.poly1, kernel_call.poly2)
           /\ polygon = FindIntersectionBuffers(kernel_call.poly1, kernel_call.poly2,
                                                ConvexPolygon_new)

\* the pass for the first clip edge was skipped and a later pass cut the subject
C23_Witness ==
    /\ Intersected
    /\ kernel_call.poly2.count >= 3
    /\ \A k \in 1..kernel_call.poly1.count :
           EdgeCross(kernel_call.poly1.vertices[k],
                     kernel_call.poly2.vertices[1], kernel_call.poly2.vertices[2]) >= 0
    /\ polygon.count >= 3
    /\ ConvexPolygon_vertices(polygon) # ConvexPolygon_vertices(kernel_call.poly1)

\* C11: find_intersection_into with a clip polygon of fewer than 3 vertices
\* leaves the result equal to the subject polygon, whatever the subject is.
C11_DegenerateClipCopiesSubject ==
    (Intersected /\ kernel_call.poly2.count < 3)
        => /\ polygon.count = kernel_call.poly1.count
           /\ ConvexPolygon_vertices(polygon) = ConvexPolygon_vertices(kernel_call.poly1)

\* a full subject polygon came through a clip polygon of two points
C11_Witness ==
    /\ Intersected
    /\ kernel_call.poly2.count = 2
    /\ kernel_call.poly1.count = MAX_VERTICES
    /\ ConvexPolygon_vertices(polygon) = Hexadecagon

\* C12: a convex counter-clockwise polygon of 3 to MAX_VERTICES vertices
\* intersected with itself gives a polygon with the same set of vertices.
C12_SelfIntersectionKeepsVertexSet ==
    (Intersected /\ kernel_call.poly1 = kernel_call.poly2 /\ IsConvexCCW(kernel_call.poly1))
        => VertexSet(polygon) = VertexSet(kernel_call.poly1)

\* the polygon that fills the vertex array was intersected with itself
C12_Witness ==
    /\ Intersected
    /\ kernel_call.poly1 = kernel_call.poly2
    /\ IsConvexCCW(kernel_call.poly1)
    /\ kernel_call.poly1.count = MAX_VERTICES
    /\ Cardinality(VertexSet(polygon)) = MAX_VERTICES

\* C13: when every vertex of the subject lies strictly inside a convex
\* counter-clockwise clip polygon, the result is the subject: same count,
\* same vertices, same order.
C13_ContainedSubjectUnchanged ==
    (/\ Intersected
     /\ IsConvexCCW(kernel_call.poly2)
     /\ \A i \in 1..kernel_call.poly1.count :
            StrictlyInside(kernel_call.poly1.vertices[i], kernel_call.poly2))
        => /\ polygon.count = kernel_call.poly1.count
           /\ ConvexPolygon_vertices(polygon) = ConvexPolygon_vertices(kernel_call.poly1)

\* the small triangle was clipped by the square around it
C13_Witness ==
    /\ Intersected
    /\ ConvexPolygon_vertices(kernel_call.poly1) = SmallTriangle
    /\ ConvexPolygon_vertices(kernel_call.poly2) = Square04
    /\ \A i \in 1..3 : StrictlyInside(kernel_call.poly1.vertices[i], kernel_call.poly2)
    /\ polygon.count = 3

C15_OverlappingSquares ==
    (/\ Intersected
     /\ ConvexPolygon_vertices(kernel_call.poly1) = Square04
     /\ ConvexPolygon_vertices(kernel_call.poly2) = Square26)
        => /\ ConvexPolygon_vertices(polygon)
                  = <<Point2(2, 2), Point2(4, 2), Point2(4, 4), Point2(2, 4)>>
           /\ ConvexPolygon_area(polygon) = 2 * 4

\* the two squares were intersected and four vertices came out
C15_Witness ==
    /\ Intersected
    /\ ConvexPolygon_vertices(kernel_call.poly1) = Square04
    /\ ConvexPolygon_vertices(kernel_call.poly2) = Square26
    /\ polygon.count = 4

\* C16: a ConvexPolygon has a count of at most MAX_VERTICES after any
\* sequence of new, from_points, set_count, copy_vertices_from_slice and
\* find_intersection_into, also when it is given more than MAX_VERTICES
\* points or a count above MAX_VERTICES.
C16_CountWithinCapacity ==
    polygon.count \in 0..MAX_VERTICES

\* set_count was asked for more than the array holds, after a list of 17
\* points had left its first 16 in the array
C16_Witness ==
    /\ kernel_call.op = "set_count"
    /\ kernel_call.requested > MAX_VERTICES
    /\ polygon.count = MAX_VERTICES
    /\ ConvexPolygon_vertices(polygon) = SubSeq(Heptadecagon, 1, MAX_VERTICES)

\* C17: one pass of clip_polygon_by_edge writes no output slot at or beyond
\* MAX_VERTICES and returns a count of at most MAX_VERTICES: the output is
\* what the pass emits, cut off after MAX_VERTICES vertices.
C17_ClipPassStaysInArray ==
    Clipped
        => LET emitted == Emitted(kernel_call.subject_vertices,
                                  kernel_call.clip_edge_start, kernel_call.clip_edge_end)
           IN  /\ polygon.count <= MAX_VERTICES
               /\ polygon.count = Min(Len(emitted), MAX_VERTICES)
               /\ \A i \in 1..polygon.count : polygon.vertices[i] = emitted[i]

\* a pass over 16 vertices emitted more than the array holds
C17_Witness ==
    /\ Clipped
    /\ Len(kernel_call.subject_vertices) = MAX_VERTICES
    /\ Len(Emitted(kernel_call.subject_vertices,
                   kernel_call.clip_edge_start, kernel_call.clip_edge_end)) = 24
    /\ polygon.count = MAX_VERTICES

\* C20: projection divides by no depth -z below 1e-6: a point in front of
\* the near plane (past the tolerance) or at a depth below 1e-6 projects to
\* None, also with znear = 0, and what is returned is a pair of numbers.
C20_NoDivisionByTinyDepth ==
    Projected
        => LET z == kernel_call.p_cam[3]
           IN  /\ (z > -kernel_call.znear + kernel_call.near_tolerance \/ -z < FINE_MIN_DEPTH)
                      => kernel_call.projected = None
               /\ IsSome(kernel_call.projected)
                      => /\ -z >= FINE_MIN_DEPTH
                         /\ Unwrap(kernel_call.projected) \in Int \X Int

\* with znear = 0 a point at depth 5e-7 passed the near test and was refused
C20_Witness ==
    /\ Projected
    /\ kernel_call.znear = 0
    /\ kernel_call.p_cam[3] = -5
    /\ kernel_call.projected = None

====
